---- MODULE Spec2Model ----
(***************************************************************************)
(* A model of the UI generator backend: the generation pipeline of         *)
(* backend/src/index.ts, its agents (intent analyzer, planner, explainer), *)
(* the security and validation utilities, and the in-memory version store. *)
(* Text is kept as text: messages and markup are strings, and the keyword  *)
(* and pattern scans of the source are computed character by character.    *)
(***************************************************************************)
EXTENDS Integers, Sequences, FiniteSets, TLC

VARIABLES
    versions,       \* VersionService.versions: the id-to-Version map
    versionOrder,   \* VersionService.versionOrder: the ids, oldest first
    nextId,         \* index of the next id uuidv4() hands out in saveVersion
    clock,          \* Date.now(), advanced at each save
    rollbacks,      \* number of rollbacks served
    response,       \* the HTTP response of the last handled request
    stages,         \* the pipeline stages the last handled request ran, in order
    before,         \* the store as it was when the last handled request arrived
    lastRequest,    \* the last handled request
    planInput,      \* body of the last POST /api/validate-plan, <<>> before the first
    planResult,     \* its response
    jsxInput,       \* the last markup handed to validateJSX, <<>> before the first
    jsxResult,      \* its result
    callInput,      \* the arguments of the last direct call of a utility, <<>> before it
    callResult      \* its result

vars == <<versions, versionOrder, nextId, clock, rollbacks, response, stages, before,
          lastRequest, planInput, planResult, jsxInput, jsxResult, callInput, callResult>>

-----------------------------------------------------------------------------
(* Strings (JavaScript String methods and the regular-expression classes)   *)

NoValue == "undefined"

\* a local constant: body(value)
With(value, body(_)) == body(value)

Min(a, b) == IF a < b THEN a ELSE b

Max(a, b) == IF a < b THEN b ELSE a

UPPERCASE == "ABCDEFGHIJKLMNOPQRSTUVWXYZ"

LOWERCASE == "abcdefghijklmnopqrstuvwxyz"

DIGITS == "0123456789"

CharAt(s, i) == SubSeq(s, i, i)

CharsOf(s) == {CharAt(s, i) : i \in 1..Len(s)}

SpaceChars == {" ", "\t", "\n", "\r"}

WordChars == CharsOf(UPPERCASE) \cup CharsOf(LOWERCASE) \cup CharsOf(DIGITS) \cup {"_"}

\* \s of a regular expression, and the characters String.trim removes
IsSpace(c) == c \in SpaceChars

\* \w of a regular expression
IsWordChar(c) == c \in WordChars

LowerChar(c) ==
    IF \E i \in 1..Len(UPPERCASE) : CharAt(UPPERCASE, i) = c
    THEN CharAt(LOWERCASE, CHOOSE i \in 1..Len(UPPERCASE) : CharAt(UPPERCASE, i) = c)
    ELSE c

\* String.prototype.toLowerCase, by halves
RECURSIVE toLowerCase(_)
toLowerCase(s) ==
    IF Len(s) = 0 THEN ""
    ELSE IF Len(s) = 1 THEN LowerChar(s)
    ELSE toLowerCase(SubSeq(s, 1, Len(s) \div 2)) \o toLowerCase(SubSeq(s, Len(s) \div 2 + 1, Len(s)))

\* t occurs in s at position i
StartsAt(s, t, i) == i >= 1 /\ i + Len(t) - 1 <= Len(s) /\ SubSeq(s, i, i + Len(t) - 1) = t

\* String.prototype.includes
Includes(s, t) == \E i \in 1..(Len(s) + 1) : StartsAt(s, t, i)

\* String.prototype.trim
trim(s) ==
    LET keep == {i \in 1..Len(s) : ~IsSpace(CharAt(s, i))}
    IN  IF keep = {} THEN ""
        ELSE SubSeq(s, CHOOSE i \in keep : \A j \in keep : i <= j,
                       CHOOSE i \in keep : \A j \in keep : i >= j)

\* the number of consecutive characters from position i on that are in the
\* class (inside = TRUE) or outside it (inside = FALSE)
RunLength(s, i, class, inside) ==
    LET stops == {j \in i..Len(s) : (CharAt(s, j) \in class) # inside}
    IN  IF i > Len(s) THEN 0
        ELSE IF stops = {} THEN Len(s) - i + 1
        ELSE (CHOOSE j \in stops : \A k \in stops : j <= k) - i

SeqToSet(q) == {q[i] : i \in 1..Len(q)}

RECURSIVE FlattenSeq(_)
FlattenSeq(qs) == IF qs = <<>> THEN <<>> ELSE Head(qs) \o FlattenSeq(Tail(qs))

-----------------------------------------------------------------------------
(* utils/safety.ts                                                          *)

\* Each pattern is its words; consecutive words are separated by \s+ and the
\* match is case-insensitive (flag i).
INJECTION_PATTERNS == <<
    <<"ignore", "previous", "instructions">>,
    <<"execute", "command">>,
    <<"run", "code">>,
    <<"bypass", "security">>,
    <<"override", "restrictions">>,
    <<"disable", "validation">>,
    <<"jailbreak">>,
    <<"system", "prompt">>,
    <<"administrator", "mode">>,
    <<"god", "mode">> >>

FORBIDDEN_KEYWORDS == <<
    "eval", "Function(", "dangerouslySetInnerHTML", "innerHTML", "appendChild",
    "insertAdjacentHTML", "onclick=", "onload=", "fetch(", "axios",
    "XMLHttpRequest", "setTimeout", "setInterval", "setImmediate", "require(",
    "eval(", "constructor", "prototype", "__proto__", "document.write",
    "window.", "global.", "process.", "child_process", "fs.", "path.", "os." >>

\* The end (last position) of a match of the words from position i on, or 0.
RECURSIVE MatchWordsAt(_, _, _)
MatchWordsAt(low, words, i) ==
    IF ~StartsAt(low, Head(words), i) THEN 0
    ELSE LET e == i + Len(Head(words)) - 1
             ws == RunLength(low, e + 1, SpaceChars, TRUE)
         IN  IF Len(words) = 1 THEN e
             ELSE IF ws = 0 THEN 0
             ELSE MatchWordsAt(low, Tail(words), e + 1 + ws)

\* String.prototype.match(pattern): the text of the leftmost match, or NoValue
MatchPattern(input, words) ==
    With(toLowerCase(input), LAMBDA low :
    With({i \in 1..Len(low) : MatchWordsAt(low, words, i) > 0}, LAMBDA hits :
        IF hits = {} THEN NoValue
        ELSE With(CHOOSE h \in hits : \A k \in hits : h <= k, LAMBDA i :
                  SubSeq(input, i, MatchWordsAt(low, words, i)))))

detectPromptInjection(input) ==
    FlattenSeq([k \in 1..Len(INJECTION_PATTERNS) |->
        LET m == MatchPattern(input, INJECTION_PATTERNS[k])
        IN  IF m = NoValue THEN <<>>
            ELSE << [type |-> "injection",
                     message |-> "Detected potential prompt injection: \"" \o m \o "\"",
                     content |-> m] >>])

\* new RegExp('\\b' + escaped keyword, 'gi'): the keyword, ignoring case, at a
\* position where a word starts
MatchesAtWordStart(code, keyword) ==
    With(toLowerCase(code), LAMBDA low :
    With(toLowerCase(keyword), LAMBDA kw :
        \E i \in 1..Len(low) :
            /\ StartsAt(low, kw, i)
            /\ IsWordChar(CharAt(kw, 1)) # (i > 1 /\ IsWordChar(CharAt(low, i - 1)))))

detectForbiddenKeywords(code) ==
    FlattenSeq([k \in 1..Len(FORBIDDEN_KEYWORDS) |->
        IF MatchesAtWordStart(code, FORBIDDEN_KEYWORDS[k])
        THEN << [type |-> "forbidden_keyword",
                 message |-> "Found forbidden keyword: \"" \o FORBIDDEN_KEYWORDS[k] \o "\"",
                 content |-> FORBIDDEN_KEYWORDS[k]] >>
        ELSE <<>>])

\* name \s* = (\s* {)? somewhere in the text; case already folded by the caller
AssignsAt(low, name, i, brace) ==
    /\ StartsAt(low, name, i)
    /\ LET p == i + Len(name) + RunLength(low, i + Len(name), SpaceChars, TRUE)
       IN  /\ StartsAt(low, "=", p)
           /\ brace => StartsAt(low, "{", p + 1 + RunLength(low, p + 1, SpaceChars, TRUE))

\* /style\s*=\s*\{/gi
detectInlineStyles(code) ==
    IF With(toLowerCase(code), LAMBDA low :
            \E i \in 1..Len(low) : AssignsAt(low, "style", i, TRUE))
    THEN << [type |-> "forbidden_keyword",
             message |-> "Inline styles detected (not allowed)",
             content |-> "style={}"] >>
    ELSE <<>>

dangerousProps == <<"dangerouslySetInnerHTML", "onClick", "onChange">>

detectDangerousProps(code) ==
    FlattenSeq([k \in 1..Len(dangerousProps) |->
        IF With(toLowerCase(code), LAMBDA low :
           With(toLowerCase(dangerousProps[k]), LAMBDA name :
               \E i \in 1..Len(low) : AssignsAt(low, name, i, FALSE)))
        THEN << [type |-> "forbidden_keyword",
                 message |-> "Dangerous prop detected: \"" \o dangerousProps[k] \o "\"",
                 content |-> dangerousProps[k]] >>
        ELSE <<>>])

performSecurityCheck(userInput, generatedCode) ==
    LET violations == detectPromptInjection(userInput)
                      \o detectForbiddenKeywords(generatedCode)
                      \o detectInlineStyles(generatedCode)
                      \o detectDangerousProps(generatedCode)
    IN  [safe |-> Len(violations) = 0, violations |-> violations]

-----------------------------------------------------------------------------
(* agents/intentAnalyzer.ts                                                 *)

IntentOrder == <<"create", "modify", "remove", "regenerate", "rollback">>

INTENT_KEYWORDS == [
    create     |-> <<"create", "build", "design", "make", "new", "generate", "design a", "build a">>,
    modify     |-> <<"update", "change", "modify", "edit", "add", "remove", "replace">>,
    remove     |-> <<"delete", "remove", "eliminate", "drop">>,
    regenerate |-> <<"regenerate", "redo", "retry", "again", "different version">>,
    rollback   |-> <<"revert", "rollback", "go back", "restore", "previous">> ]

\* keywords.filter(kw => message.includes(kw)).length
KeywordMatches(message, keywords) ==
    Cardinality({k \in 1..Len(keywords) : Includes(message, keywords[k])})

\* the loop with `matches >= maxMatches`: the last of the tied intents wins
RECURSIVE CountIntentsLatest(_, _, _, _)
CountIntentsLatest(message, k, maxMatches, matchingIntent) ==
    IF k > Len(IntentOrder) THEN [maxMatches |-> maxMatches, matchingIntent |-> matchingIntent]
    ELSE LET matches == KeywordMatches(message, INTENT_KEYWORDS[IntentOrder[k]])
         IN  IF matches >= maxMatches
             THEN CountIntentsLatest(message, k + 1, matches, IntentOrder[k])
             ELSE CountIntentsLatest(message, k + 1, maxMatches, matchingIntent)

\* The loop over Object.entries(INTENT_KEYWORDS) from entry k on, carrying
\* maxMatches and matchingIntent.
RECURSIVE CountIntents(_, _, _, _)
CountIntents(message, k, maxMatches, matchingIntent) ==
    IF k > Len(IntentOrder) THEN [maxMatches |-> maxMatches, matchingIntent |-> matchingIntent]
    ELSE LET matches == KeywordMatches(message, INTENT_KEYWORDS[IntentOrder[k]])
         IN  IF matches > maxMatches
             THEN CountIntents(message, k + 1, matches, IntentOrder[k])
             ELSE CountIntents(message, k + 1, maxMatches, matchingIntent)

reasons == [
    create     |-> "User is requesting a new UI component or layout",
    modify     |-> "User is requesting changes to existing UI",
    remove     |-> "User is requesting deletion of components",
    regenerate |-> "User is requesting recreation of UI with modifications",
    rollback   |-> "User is requesting restoration of previous version" ]

generateIntentReasoning(intent, message, matches) ==
    reasons[intent] \o ". (Keyword matches: " \o ToString(matches) \o ")"

\* confidence is a fraction: <<numerator, denominator>>
analyzeIntent(request) ==
    LET message == toLowerCase(request.message)
        injections == detectPromptInjection(message)
        counted == CountIntents(message, 1, 0, "create")
        matchingIntent ==
            IF /\ request.previousVersionId # NoValue
               /\ counted.matchingIntent = "create"
               /\ ~Includes(message, "rollback")
               /\ ~Includes(message, "regenerate")
            THEN "modify"
            ELSE counted.matchingIntent
    IN  IF Len(injections) > 0
        THEN [intent |-> "create",
              confidence |-> <<0, 1>>,
              reasoning |-> "Potential security violation detected: " \o injections[1].message]
        ELSE [intent |-> matchingIntent,
              confidence |-> IF counted.maxMatches >= 3 THEN <<1, 1>> ELSE <<counted.maxMatches, 3>>,
              reasoning |-> generateIntentReasoning(matchingIntent, message, counted.maxMatches)]

MinCreateLength == 10

validateIntentRequirements(intent, request) ==
    IF intent \in {"modify", "regenerate", "rollback"}
    THEN IF request.previousVersionId = NoValue
         THEN [valid |-> FALSE, error |-> "Intent \"" \o intent \o "\" requires previousVersionId"]
         ELSE [valid |-> TRUE, error |-> NoValue]
    ELSE IF intent = "create"
    THEN IF Len(request.message) = 0 \/ Len(trim(request.message)) < MinCreateLength
         THEN [valid |-> FALSE,
               error |-> "Create intent requires a descriptive message (min 10 chars)"]
         ELSE [valid |-> TRUE, error |-> NoValue]
    ELSE [valid |-> TRUE, error |-> NoValue]

componentNames == <<"button", "card", "header", "input", "select", "form",
                    "modal", "list", "grid", "stack", "alert", "divider", "textarea">>

\* extractEntities(message).componentsRequested, the part the planner reads
extractEntities(message) ==
    LET lowerMessage == toLowerCase(message)
    IN  [componentsRequested |->
            SelectSeq(componentNames, LAMBDA c : Includes(lowerMessage, c))]

-----------------------------------------------------------------------------
(* agents/planner.ts                                                        *)
(* A prop value carries its JavaScript type: [t |-> typeof, v |-> its text].*)
(* props is the list of <<name, value>> in insertion order; a node without  *)
(* a children array has children = <<>>.                                    *)

Str(v) == [t |-> "string", v |-> v]

Bool(b) == [t |-> "boolean", v |-> IF b THEN "true" ELSE "false"]

Num(n) == [t |-> "number", v |-> ToString(n)]

Arr(text) == [t |-> "array", v |-> text]

Node(id, type, props, children) ==
    [id |-> id, type |-> type, props |-> props, children |-> children]

\* uuidv4().substring(0, 8): the k-th identifier drawn in a run whose random
\* source is seed; two seeds give two different identifiers
uuid8(seed, k) ==
    seed \o (IF k < 10 THEN "00" ELSE IF k < 100 THEN "0" ELSE "") \o ToString(k)

\* /"([^"]+)"/ : the text between the leftmost pair of quotes that encloses
\* at least one character, or NoValue
QuotedText(message) ==
    LET hits == {i \in 1..Len(message) :
                    /\ CharAt(message, i) = "\""
                    /\ RunLength(message, i + 1, {"\""}, FALSE) >= 1
                    /\ i + 1 + RunLength(message, i + 1, {"\""}, FALSE) <= Len(message)}
    IN  IF hits = {} THEN NoValue
        ELSE LET i == CHOOSE h \in hits : \A k \in hits : h <= k
             IN  SubSeq(message, i + 1, i + RunLength(message, i + 1, {"\""}, FALSE))

TitleWords == <<"title", "called", "named">>

TitleStops == {"\"", ".", ","}

\* group 1 of /(?:title|called|named)\s+(?:")?([^".,]+)/i for a match whose
\* keyword ends right before position p, or NoValue when none starts there
TitleGroupAfter(message, p) ==
    LET ws == RunLength(message, p, SpaceChars, TRUE)
        q == p + ws
        direct == RunLength(message, q, TitleStops, FALSE)
        quoted == RunLength(message, q + 1, TitleStops, FALSE)
    IN  IF ws = 0 THEN NoValue
        ELSE IF direct >= 1 THEN SubSeq(message, q, q + direct - 1)
        ELSE IF q <= Len(message) /\ CharAt(message, q) = "\"" /\ quoted >= 1
             THEN SubSeq(message, q + 1, q + quoted)
        ELSE IF ws >= 2 THEN SubSeq(message, q - 1, q - 1)
        ELSE NoValue

TitleGroupAt(message, i) ==
    LET low == toLowerCase(message)
        w == {k \in 1..Len(TitleWords) :
                 /\ StartsAt(low, TitleWords[k], i)
                 /\ TitleGroupAfter(message, i + Len(TitleWords[k])) # NoValue}
    IN  IF w = {} THEN NoValue
        ELSE TitleGroupAfter(message,
                 i + Len(TitleWords[CHOOSE k \in w : \A j \in w : k <= j]))

extractTitleFromMessage(message) ==
    LET hits == {i \in 1..Len(message) : TitleGroupAt(message, i) # NoValue}
    IN  IF QuotedText(message) # NoValue THEN QuotedText(message)
        ELSE IF hits # {}
             THEN trim(TitleGroupAt(message, CHOOSE h \in hits : \A k \in hits : h <= k))
        ELSE "Application"

\* the keys of defaults, in the order their ids are drawn
DefaultTypes == <<"button", "card", "header", "input", "select", "modal",
                  "list", "grid", "stack", "textarea", "alert">>

DefaultsEntry(typeLower, id) ==
    CASE typeLower = "button" ->
           Node("button_" \o id, "Button", << <<"children", Str("Click Me")>>, <<"variant", Str("primary")>> >>, <<>>)
      [] typeLower = "card" ->
           Node("card_" \o id, "Card", << <<"title", Str("Card Title")>> >>, <<>>)
      [] typeLower = "header" ->
           Node("header_" \o id, "Header", << <<"title", Str("Header")>>, <<"showNav", Bool(FALSE)>> >>, <<>>)
      [] typeLower = "input" ->
           Node("input_" \o id, "Input",
                << <<"label", Str("Input")>>, <<"type", Str("text")>>, <<"placeholder", Str("Enter text")>> >>, <<>>)
      [] typeLower = "select" ->
           Node("select_" \o id, "Select",
                << <<"label", Str("Select")>>, <<"options", Arr("[\"Option 1\", \"Option 2\", \"Option 3\"]")>> >>, <<>>)
      [] typeLower = "modal" ->
           Node("modal_" \o id, "Modal", << <<"title", Str("Modal")>>, <<"open", Bool(TRUE)>> >>, <<>>)
      [] typeLower = "list" ->
           Node("list_" \o id, "List",
                << <<"items", Arr("[\"Item 1\", \"Item 2\", \"Item 3\"]")>>, <<"renderItem", Str("item")>> >>, <<>>)
      [] typeLower = "grid" ->
           Node("grid_" \o id, "Grid", << <<"columns", Num(2)>>, <<"gap", Str("md")>> >>, <<>>)
      [] typeLower = "stack" ->
           Node("stack_" \o id, "Stack", << <<"direction", Str("vertical")>>, <<"spacing", Str("md")>> >>, <<>>)
      [] typeLower = "textarea" ->
           Node("textarea_" \o id, "TextArea",
                << <<"label", Str("Message")>>, <<"placeholder", Str("Enter text")>>, <<"rows", Num(4)>> >>, <<>>)
      [] typeLower = "alert" ->
           Node("alert_" \o id, "Alert", << <<"message", Str("Alert message")>>, <<"type", Str("info")>> >>, <<>>)

\* The defaults table draws one id per entry, so a call that follows n draws
\* gives entry k the draw n + k. The result is <<>> for null, else <<node>>.
createComponentFromType(type, seed, n) ==
    LET typeLower == toLowerCase(type)
        at == {k \in 1..Len(DefaultTypes) : DefaultTypes[k] = typeLower}
    IN  IF at = {} THEN <<>>
        ELSE << DefaultsEntry(typeLower, uuid8(seed, n + (CHOOSE k \in at : TRUE))) >>

planFormComponents(message, seed, n) ==
    LET messageLower == toLowerCase(message)
        email == IF Includes(messageLower, "email")
                 THEN << Node("input_email_" \o uuid8(seed, n + 1), "Input",
                              << <<"label", Str("Email")>>, <<"type", Str("email")>>,
                                 <<"placeholder", Str("Enter your email")>> >>, <<>>) >>
                 ELSE <<>>
        password == IF Includes(messageLower, "password")
                    THEN << Node("input_password_" \o uuid8(seed, n + Len(email) + 1), "Input",
                                 << <<"label", Str("Password")>>, <<"type", Str("password")>>,
                                    <<"placeholder", Str("Enter your password")>> >>, <<>>) >>
                    ELSE <<>>
        name == IF Includes(messageLower, "name")
                THEN << Node("input_name_" \o uuid8(seed, n + Len(email) + Len(password) + 1), "Input",
                             << <<"label", Str("Name")>>, <<"type", Str("text")>>,
                                <<"placeholder", Str("Enter your name")>> >>, <<>>) >>
                ELSE <<>>
        submit == IF Includes(messageLower, "login") \/ Includes(messageLower, "form")
                  THEN << Node("button_submit_"
                                  \o uuid8(seed, n + Len(email) + Len(password) + Len(name) + 1),
                               "Button",
                               << <<"children", Str("Submit")>>, <<"variant", Str("primary")>>,
                                  <<"fullWidth", Bool(TRUE)>> >>, <<>>) >>
                  ELSE <<>>
    IN  email \o password \o name \o submit

\* The loop over requestedComponents from entry k on: components so far, and
\* n ids drawn so far.
RECURSIVE AddRequested(_, _, _, _, _, _)
AddRequested(components, requestedComponents, k, messageLower, seed, n) ==
    IF k > Len(requestedComponents) THEN [components |-> components, n |-> n]
    ELSE LET comp == requestedComponents[k]
         IN  IF /\ ~\E c \in 1..Len(components) : components[c].type = comp
                /\ Includes(messageLower, toLowerCase(comp))
             THEN AddRequested(components \o createComponentFromType(comp, seed, n),
                               requestedComponents, k + 1, messageLower, seed,
                               n + Len(DefaultTypes))
             ELSE AddRequested(components, requestedComponents, k + 1, messageLower, seed, n)

\* planComponents up to the loop over requestedComponents (part_002 48-84):
\* the components pushed so far and the number n of ids drawn
assembleComponents(message, requestedComponents, seed) ==
    With(toLowerCase(message), LAMBDA messageLower :
    With(IF \/ Includes(messageLower, "header")
            \/ Includes(messageLower, "title")
            \/ Includes(messageLower, "top")
         THEN << Node("header_" \o uuid8(seed, 1), "Header",
                      << <<"title", Str(extractTitleFromMessage(message))>>,
                         <<"showNav", Bool(Includes(messageLower, "nav"))>> >>, <<>>) >>
         ELSE <<>>, LAMBDA header :
    With(IF Includes(messageLower, "form") \/ Includes(messageLower, "login")
         THEN planFormComponents(message, seed, Len(header))
         ELSE <<>>, LAMBDA form :
        AddRequested(header \o form, requestedComponents, 1, messageLower, seed,
                     Len(header) + Len(form)))))

\* planComponents returning every assembled node inside the card
planComponentsWrapAll(message, requestedComponents, seed) ==
    With(toLowerCase(message), LAMBDA messageLower :
    With(assembleComponents(message, requestedComponents, seed), LAMBDA added :
    With(Node("card_" \o uuid8(seed, added.n + 1), "Card",
              << <<"title", Str("Content")>> >>, <<>>), LAMBDA card :
        IF Len(added.components) > 1 /\ ~Includes(messageLower, "card")
        THEN << added.components[1], [card EXCEPT !.children = added.components] >>
        ELSE IF Len(added.components) = 0 THEN << card >>
        ELSE added.components)))

\* planComponents without the default card for an empty assembly
planComponentsNoDefault(message, requestedComponents, seed) ==
    With(toLowerCase(message), LAMBDA messageLower :
    With(assembleComponents(message, requestedComponents, seed), LAMBDA added :
    With(Node("card_" \o uuid8(seed, added.n + 1), "Card",
              << <<"title", Str("Content")>> >>, <<>>), LAMBDA card :
        IF Len(added.components) > 1 /\ ~Includes(messageLower, "card")
        THEN << added.components[1], [card EXCEPT !.children = Tail(added.components)] >>
        ELSE added.components)))

planComponents(message, requestedComponents, seed) ==
    With(toLowerCase(message), LAMBDA messageLower :
    With(assembleComponents(message, requestedComponents, seed), LAMBDA added :
    With(Node("card_" \o uuid8(seed, added.n + 1), "Card",
              << <<"title", Str("Content")>> >>, <<>>), LAMBDA card :
        IF Len(added.components) > 1 /\ ~Includes(messageLower, "card")
        THEN << added.components[1], [card EXCEPT !.children = Tail(added.components)] >>
        ELSE IF Len(added.components) = 0 THEN << card >>
        ELSE added.components)))

generatePlan(userMessage, seed) ==
    With(toLowerCase(userMessage), LAMBDA messageLower :
    With(IF Includes(messageLower, "horizontal") THEN "horizontal" ELSE "vertical",
         LAMBDA direction :
    With(planComponents(userMessage, extractEntities(userMessage).componentsRequested, seed),
         LAMBDA components :
        [intent |-> "create",
         components |-> components,
         layout |-> [direction |-> direction,
                     spacing |-> IF Includes(messageLower, "spacious") THEN "lg"
                                 ELSE IF Includes(messageLower, "compact") THEN "sm"
                                 ELSE "md"],
         description |-> "Layout with " \o ToString(Len(components)) \o " components in "
                            \o direction \o " direction"])))

\* countComponents: the roots and their direct children
countComponents(components) ==
    IF components = <<>> THEN 0
    ELSE Len(components)
         + Len(FlattenSeq([k \in 1..Len(components) |-> components[k].children]))

estimatePlanComplexity(plan) ==
    LET componentCount == countComponents(plan.components)
    IN  [complexity |-> IF componentCount <= 3 THEN "simple"
                        ELSE IF componentCount <= 8 THEN "moderate" ELSE "complex",
         componentCount |-> componentCount,
         estimatedLOC |-> componentCount * 8 + 20]

-----------------------------------------------------------------------------
(* types/componentLibrary.ts                                                *)

Prop(name, type, required, values) ==
    [name |-> name, type |-> type, required |-> required, values |-> values]

Schema(props, allowedChildren, allowedParents) ==
    [props |-> props, allowedChildren |-> allowedChildren, allowedParents |-> allowedParents]

Sizes == <<"sm", "md", "lg">>

\* props in declaration order; a constraint the schema does not declare is <<>>
COMPONENT_LIBRARY == [
    Stack |-> Schema(<< Prop("direction", "enum", TRUE, <<"horizontal", "vertical">>),
                        Prop("spacing", "enum", FALSE, Sizes),
                        Prop("children", "array", FALSE, <<>>) >>,
                     <<"Button", "Card", "Input", "Select", "TextArea",
                       "Header", "Modal", "List", "Grid", "Text">>, <<>>),
    Grid |-> Schema(<< Prop("columns", "number", TRUE, <<>>),
                       Prop("gap", "enum", FALSE, Sizes),
                       Prop("children", "array", FALSE, <<>>) >>,
                    <<"Card", "Button", "Input", "Header">>, <<>>),
    Header |-> Schema(<< Prop("title", "string", TRUE, <<>>),
                         Prop("subtitle", "string", FALSE, <<>>),
                         Prop("showNav", "boolean", FALSE, <<>>) >>,
                      <<>>, <<"Stack", "Grid">>),
    Card |-> Schema(<< Prop("title", "string", FALSE, <<>>),
                       Prop("subtitle", "string", FALSE, <<>>),
                       Prop("children", "array", FALSE, <<>>) >>,
                    <<"Button", "Input", "Select", "TextArea", "Stack", "List", "Text">>, <<>>),
    Text |-> Schema(<< Prop("content", "string", TRUE, <<>>),
                       Prop("variant", "enum", FALSE, <<"body", "small", "large">>) >>,
                    <<>>, <<>>),
    Input |-> Schema(<< Prop("label", "string", FALSE, <<>>),
                        Prop("type", "enum", FALSE, <<"text", "email", "password", "number">>),
                        Prop("placeholder", "string", FALSE, <<>>),
                        Prop("required", "boolean", FALSE, <<>>),
                        Prop("disabled", "boolean", FALSE, <<>>) >>,
                     <<>>, <<>>),
    TextArea |-> Schema(<< Prop("label", "string", FALSE, <<>>),
                           Prop("placeholder", "string", FALSE, <<>>),
                           Prop("rows", "number", FALSE, <<>>),
                           Prop("required", "boolean", FALSE, <<>>) >>,
                        <<>>, <<>>),
    Select |-> Schema(<< Prop("label", "string", FALSE, <<>>),
                         Prop("options", "array", TRUE, <<>>),
                         Prop("required", "boolean", FALSE, <<>>),
                         Prop("disabled", "boolean", FALSE, <<>>) >>,
                      <<>>, <<>>),
    Button |-> Schema(<< Prop("children", "string", TRUE, <<>>),
                         Prop("variant", "enum", FALSE, <<"primary", "secondary", "danger">>),
                         Prop("disabled", "boolean", FALSE, <<>>),
                         Prop("fullWidth", "boolean", FALSE, <<>>) >>,
                      <<>>, <<>>),
    Modal |-> Schema(<< Prop("title", "string", TRUE, <<>>),
                        Prop("open", "boolean", TRUE, <<>>),
                        Prop("children", "array", FALSE, <<>>) >>,
                     <<"Card", "Stack", "Button", "Text">>, <<>>),
    List |-> Schema(<< Prop("items", "array", TRUE, <<>>),
                       Prop("renderItem", "string", TRUE, <<>>) >>,
                    <<>>, <<>>),
    Divider |-> Schema(<< Prop("spacing", "enum", FALSE, Sizes) >>, <<>>, <<>>),
    Alert |-> Schema(<< Prop("message", "string", TRUE, <<>>),
                        Prop("type", "enum", FALSE, <<"info", "success", "warning", "error">>) >>,
                     <<>>, <<>>) ]

\* The keys every object literal inherits: `name in COMPONENT_LIBRARY` holds
\* for them and COMPONENT_LIBRARY[name] is a value without a props field.
ObjectPrototypeKeys == {"constructor", "toString", "valueOf", "hasOwnProperty",
                        "isPrototypeOf", "propertyIsEnumerable", "toLocaleString",
                        "__proto__"}

\* componentName in COMPONENT_LIBRARY
isComponentWhitelisted(componentName) ==
    componentName \in DOMAIN COMPONENT_LIBRARY \cup ObjectPrototypeKeys

getWhitelistedComponents == DOMAIN COMPONENT_LIBRARY

-----------------------------------------------------------------------------
(* utils/index.ts: props and component tree validation                      *)

Error(path, message) == [path |-> path, message |-> message, severity |-> "error"]

HasProp(props, name) == \E k \in 1..Len(props) : props[k][1] = name

PropValue(props, name) == props[CHOOSE k \in 1..Len(props) : props[k][1] = name][2]

JoinWith(q, sep) ==
    LET RECURSIVE Join(_)
        Join(k) == IF k > Len(q) THEN ""
                   ELSE (IF k > 1 THEN sep ELSE "") \o q[k] \o Join(k + 1)
    IN  Join(1)

\* the error message, or NoValue for null
validatePropValue(propName, value, schema) ==
    IF value.t \in {"null", "undefined"} THEN NoValue
    ELSE IF schema.type \in {"string", "number", "boolean"}
    THEN IF value.t # schema.type
         THEN "Expected " \o schema.type \o ", got "
                 \o (IF value.t = "array" THEN "object" ELSE value.t)
         ELSE NoValue
    ELSE IF schema.type = "enum"
    THEN IF ~(value.t = "string" /\ value.v \in SeqToSet(schema.values))
         THEN "Value must be one of: " \o JoinWith(schema.values, ", ")
         ELSE NoValue
    ELSE IF schema.type = "array"
    THEN IF value.t # "array" THEN "Expected array, got " \o value.t ELSE NoValue
    ELSE IF schema.type = "object"
    THEN IF value.t # "object"
         THEN "Expected object, got " \o (IF value.t = "array" THEN "object" ELSE value.t)
         ELSE NoValue
    ELSE NoValue

\* Reading schema.props of an inherited key throws a TypeError.
validateComponentPropsThrows(componentName) ==
    componentName \in ObjectPrototypeKeys \ DOMAIN COMPONENT_LIBRARY

validateComponentProps(componentName, props) ==
    IF componentName \notin DOMAIN COMPONENT_LIBRARY
    THEN << Error(componentName,
                  "Component \"" \o componentName \o "\" not found in whitelist") >>
    ELSE LET schema == COMPONENT_LIBRARY[componentName]
         IN  FlattenSeq([k \in 1..Len(schema.props) |->
                LET propSchema == schema.props[k]
                    propName == propSchema.name
                    missing == IF propSchema.required /\ ~HasProp(props, propName)
                               THEN << Error(componentName \o "." \o propName,
                                             "Required prop \"" \o propName \o "\" is missing") >>
                               ELSE <<>>
                    error == IF HasProp(props, propName)
                             THEN validatePropValue(propName, PropValue(props, propName), propSchema)
                             ELSE NoValue
                IN  missing \o (IF error # NoValue
                                THEN << Error(componentName \o "." \o propName, error) >>
                                ELSE <<>>)])

RECURSIVE validateComponentTreeErrors(_)
validateComponentTreeErrors(components) ==
    FlattenSeq([k \in 1..Len(components) |->
        LET component == components[k]
        IN  IF ~isComponentWhitelisted(component.type)
            THEN << Error(component.id,
                          "Component type \"" \o component.type \o "\" is not whitelisted") >>
            ELSE validateComponentProps(component.type, component.props)
                 \o validateComponentTreeErrors(component.children)])

validateComponentTree(components) ==
    LET errors == validateComponentTreeErrors(components)
    IN  [valid |-> Len(errors) = 0, errors |-> errors]

-----------------------------------------------------------------------------
(* services/validationService.ts: validatePlan                              *)

\* A value without properties stands for null: reading plan.components of it
\* throws a TypeError.
NullPlan == <<>>

\* `propName in props` throws a TypeError for a node without a props map as
\* soon as the schema of its type names a prop.
propsLookupThrows(component) ==
    /\ component.type \in DOMAIN COMPONENT_LIBRARY
    /\ "props" \notin DOMAIN component
    /\ Len(COMPONENT_LIBRARY[component.type].props) > 0

\* the errors of the loop over plan.components
planComponentErrors(components) ==
    FlattenSeq([k \in 1..Len(components) |->
        IF ~isComponentWhitelisted(components[k].type)
        THEN << Error("plan.components." \o components[k].id,
                      "Component type \"" \o components[k].type \o "\" is not whitelisted") >>
        ELSE validateComponentProps(components[k].type,
                                    IF "props" \in DOMAIN components[k]
                                    THEN components[k].props ELSE <<>>)])

\* the errors of the layout block
planLayoutErrors(plan) ==
    IF "layout" \notin DOMAIN plan THEN <<>>
    ELSE (IF plan.layout.direction \notin {NoValue, "horizontal", "vertical"}
          THEN << Error("plan.layout.direction",
                        "Layout direction must be \"horizontal\" or \"vertical\"") >>
          ELSE <<>>)
         \o (IF plan.layout.spacing \notin {NoValue, "sm", "md", "lg"}
             THEN << Error("plan.layout.spacing",
                           "Layout spacing must be \"sm\", \"md\", or \"lg\"") >>
             ELSE <<>>)

\* threw: the call ended with an exception instead of a result
validatePlan(plan) ==
    IF DOMAIN plan = {}
    THEN [valid |-> FALSE, errors |-> <<>>, threw |-> TRUE]
    ELSE IF "components" \notin DOMAIN plan
    THEN [valid |-> FALSE,
          errors |-> << Error("plan.components", "Plan must contain components array") >>,
          threw |-> FALSE]
    ELSE IF \E k \in 1..Len(plan.components) :
               \/ validateComponentPropsThrows(plan.components[k].type)
               \/ propsLookupThrows(plan.components[k])
    THEN [valid |-> FALSE, errors |-> <<>>, threw |-> TRUE]
    ELSE With((IF Len(plan.components) = 0
               THEN << Error("plan.components", "Plan must contain at least one component") >>
               ELSE <<>>)
              \o planComponentErrors(plan.components) \o planLayoutErrors(plan),
              LAMBDA errors : [valid |-> Len(errors) = 0, errors |-> errors, threw |-> FALSE])

-----------------------------------------------------------------------------
(* agents/generator.ts: the code emitter. One element per node, tag = the   *)
(* node's type, one attribute per prop, a string `children` prop as the     *)
(* element's text, child nodes nested and indented, one tag per line.       *)

RenderAttr(prop) ==
    IF prop[2].t = "string" THEN " " \o prop[1] \o "=\"" \o prop[2].v \o "\""
    ELSE " " \o prop[1] \o "={" \o prop[2].v \o "}"

RenderAttrs(props) ==
    LET attrs == SelectSeq(props, LAMBDA pr : pr[1] # "children")
    IN  JoinWith([k \in 1..Len(attrs) |-> RenderAttr(attrs[k])], "")

RECURSIVE RenderNode(_, _)
RenderNode(node, indent) ==
    LET open == indent \o "<" \o node.type \o RenderAttrs(node.props)
        text == IF HasProp(node.props, "children") /\ PropValue(node.props, "children").t = "string"
                THEN PropValue(node.props, "children").v ELSE ""
    IN  IF node.children # <<>>
        THEN <<open \o ">">>
             \o (IF text # "" THEN <<indent \o "  " \o text>> ELSE <<>>)
             \o FlattenSeq([k \in 1..Len(node.children) |->
                               RenderNode(node.children[k], indent \o "  ")])
             \o <<indent \o "</" \o node.type \o ">">>
        ELSE IF text # "" THEN <<open \o ">" \o text \o "</" \o node.type \o ">">>
        ELSE <<open \o " />">>

generateJSX(plan) ==
    JoinWith(FlattenSeq([k \in 1..Len(plan.components) |->
                            RenderNode(plan.components[k], "")]), "\n")

\* String.prototype.split('\n')
SplitLines(code) ==
    LET nl == {i \in 1..Len(code) : CharAt(code, i) = "\n"}
        cut(k) == IF k = 0 THEN 0
                  ELSE IF k > Cardinality(nl) THEN Len(code) + 1
                  ELSE CHOOSE i \in nl : Cardinality({j \in nl : j < i}) = k - 1
    IN  [k \in 1..(Cardinality(nl) + 1) |-> SubSeq(code, cut(k - 1) + 1, cut(k) - 1)]

\* the names after a tag-opening "<": every match of /<(\w+)/g, in order
TagNames(code) ==
    LET at == {i \in 1..Len(code) :
                  CharAt(code, i) = "<" /\ RunLength(code, i + 1, WordChars, TRUE) >= 1}
        nth(k) == CHOOSE i \in at : Cardinality({j \in at : j < i}) = k - 1
    IN  [k \in 1..Cardinality(at) |->
            SubSeq(code, nth(k) + 1, nth(k) + RunLength(code, nth(k) + 1, WordChars, TRUE))]

extractMetadata(code) ==
    [componentCount |-> Len(TagNames(code)), linesOfCode |-> Len(SplitLines(code))]

-----------------------------------------------------------------------------
(* utils/index.ts: analyzeJSX                                               *)

htmlElements == {"div", "span", "p", "a", "button", "input", "form", "label",
                 "h1", "h2", "h3", "h4", "h5", "h6", "ul", "ol", "li",
                 "table", "tr", "td", "thead", "tbody", "footer", "header",
                 "main", "section", "article", "nav", "aside", "img", "video"}

isHTMLElement(tag) == toLowerCase(tag) \in htmlElements

\* every match of /<(\w+)[\s>]/g, in order
ComponentPatternNames(code) ==
    LET at == {i \in 1..Len(code) :
                  /\ CharAt(code, i) = "<"
                  /\ RunLength(code, i + 1, WordChars, TRUE) >= 1
                  /\ LET e == i + 1 + RunLength(code, i + 1, WordChars, TRUE)
                     IN  e <= Len(code) /\ CharAt(code, e) \in SpaceChars \cup {">"}}
        nth(k) == CHOOSE i \in at : Cardinality({j \in at : j < i}) = k - 1
    IN  [k \in 1..Cardinality(at) |->
            SubSeq(code, nth(k) + 1, nth(k) + RunLength(code, nth(k) + 1, WordChars, TRUE))]

TagNameChars == WordChars \cup {":", "-"}

\* The loop of isValidJSXSyntax over the matches of
\* /<(\/?)([A-Za-z0-9_:-]+)?([^>]*)>/g from position pos on, with the stack
\* of open tags.
RECURSIVE ScanTagStack(_, _, _)
ScanTagStack(code, pos, stack) ==
    LET starts == {i \in pos..Len(code) :
                      CharAt(code, i) = "<" /\ \E j \in (i + 1)..Len(code) : CharAt(code, j) = ">"}
    IN  IF starts = {} THEN Len(stack) = 0
        ELSE LET i == CHOOSE a \in starts : \A b \in starts : a <= b
                 j == i + 1 + RunLength(code, i + 1, {">"}, FALSE)
                 isClosing == CharAt(code, i + 1) = "/"
                 nameAt == IF isClosing THEN i + 2 ELSE i + 1
                 nameLen == RunLength(code, nameAt, TagNameChars, TRUE)
                 tagName == IF nameLen = 0 THEN "Fragment" ELSE SubSeq(code, nameAt, nameAt + nameLen - 1)
                 rest == SubSeq(code, nameAt + nameLen, j - 1)
                 selfClosing ==
                     LET r == trim(rest) IN r # "" /\ CharAt(r, Len(r)) = "/"
             IN  IF isClosing
                 THEN IF Len(stack) = 0 \/ stack[Len(stack)] # tagName THEN FALSE
                      ELSE ScanTagStack(code, j + 1, SubSeq(stack, 1, Len(stack) - 1))
                 ELSE ScanTagStack(code, j + 1,
                                   IF selfClosing THEN stack ELSE Append(stack, tagName))

isValidJSXSyntax(code) == ScanTagStack(code, 1, <<>>)

analyzeForbidden == <<"dangerouslySetInnerHTML", "onClick", "eval", "fetch", "setTimeout">>

analyzeJSX(code) ==
    LET names == SelectSeq(ComponentPatternNames(code),
                           LAMBDA n : ~(isHTMLElement(n) \/ n = "Fragment"))
        unlisted == SelectSeq(names, LAMBDA n : ~isComponentWhitelisted(n))
        hasInlineStyles == \E i \in 1..Len(code) : AssignsAt(code, "style", i, TRUE)
        found == SelectSeq(analyzeForbidden, LAMBDA k : Includes(code, k))
        errors ==
            [k \in 1..Len(unlisted) |-> "Component \"" \o unlisted[k] \o "\" is not whitelisted"]
            \o (IF hasInlineStyles THEN <<"Inline styles (style={}) are not allowed">> ELSE <<>>)
            \o [k \in 1..Len(found) |-> "Forbidden keyword detected: \"" \o found[k] \o "\""]
            \o (IF ~isValidJSXSyntax(code) THEN <<"Invalid JSX syntax">> ELSE <<>>)
    IN  [components |-> SeqToSet(names),
         hasUnwhitelistedComponents |-> Len(unlisted) > 0,
         hasInlineStyles |-> hasInlineStyles,
         hasForbiddenKeywords |-> Len(found) > 0,
         valid |-> Len(errors) = 0,
         errors |-> errors]

\* services/validationService.ts
validateCodeSafety(code) ==
    LET forbiddenKeywordViolations == detectForbiddenKeywords(code)
        jsxAnalysis == analyzeJSX(code)
        errors ==
            [k \in 1..Len(forbiddenKeywordViolations) |->
                [path |-> "code", message |-> forbiddenKeywordViolations[k].message,
                 severity |-> "error"]]
            \o [k \in 1..Len(jsxAnalysis.errors) |->
                [path |-> "jsx", message |-> jsxAnalysis.errors[k], severity |-> "error"]]
    IN  [valid |-> Len(errors) = 0, errors |-> errors]

-----------------------------------------------------------------------------
(* manifest/component-manifest.ts                                           *)

componentManifest ==
    [allowedImports |-> {"react", "my-ui-library"},
     allowedComponents |->
        [Container |-> {"className", "id", "styleClass"},
         Text      |-> {"children", "variant", "className"},
         Button    |-> {"children", "variant", "onClickHandlerId", "className"},
         Row       |-> {"className"},
         Column    |-> {"className"}]]

-----------------------------------------------------------------------------
(* validator/validator.ts. The parser is modelled on module text made of    *)
(* import lines followed by at most one JSX element tree; locations are not *)
(* carried in the errors.                                                   *)

SkipSpace(code, i) == i + RunLength(code, i, SpaceChars, TRUE)

ElementNameChars == TagNameChars \cup {"."}

ParseFailure == [ok |-> FALSE]

\* import declarations at the head of the module: their sources
RECURSIVE ParseImports(_, _, _)
ParseImports(code, pos, acc) ==
    LET p == SkipSpace(code, pos)
    IN  IF StartsAt(code, "import ", p)
        THEN LET e == p + RunLength(code, p, {"\n"}, FALSE)
                 line == SubSeq(code, p, e - 1)
                 quotes == {i \in 1..Len(line) : CharAt(line, i) \in {"'", "\""}}
                 lo == CHOOSE i \in quotes : \A j \in quotes : i <= j
                 hi == CHOOSE i \in quotes : \A j \in quotes : j <= i
             IN  IF Cardinality(quotes) # 2 THEN ParseFailure
                 ELSE ParseImports(code, e, Append(acc, SubSeq(line, lo + 1, hi - 1)))
        ELSE [ok |-> TRUE, sources |-> acc, next |-> p]

\* the attributes of an opening element, from position i to its ">" or "/>"
RECURSIVE ParseAttrs(_, _, _)
ParseAttrs(code, i, acc) ==
    LET p == SkipSpace(code, i)
        n == RunLength(code, p, TagNameChars, TRUE)
        name == SubSeq(code, p, p + n - 1)
        q == SkipSpace(code, p + n)
        v == SkipSpace(code, q + 1)
    IN  IF p > Len(code) THEN ParseFailure
        ELSE IF CharAt(code, p) = ">"
        THEN [ok |-> TRUE, attrs |-> acc, next |-> p + 1, selfClosing |-> FALSE]
        ELSE IF StartsAt(code, "/>", p)
        THEN [ok |-> TRUE, attrs |-> acc, next |-> p + 2, selfClosing |-> TRUE]
        ELSE IF n = 0 THEN ParseFailure
        ELSE IF q <= Len(code) /\ CharAt(code, q) = "="
        THEN IF v > Len(code) THEN ParseFailure
             ELSE IF CharAt(code, v) \in {"\"", "'"}
             THEN LET close == v + 1 + RunLength(code, v + 1, {CharAt(code, v)}, FALSE)
                  IN  IF close > Len(code) THEN ParseFailure
                      ELSE ParseAttrs(code, close + 1,
                               Append(acc, [name |-> name, value |-> "StringLiteral",
                                            text |-> SubSeq(code, v + 1, close - 1)]))
             ELSE IF CharAt(code, v) = "{"
             THEN LET count(c, j) == Cardinality({k \in v..j : CharAt(code, k) = c})
                      ends == {j \in (v + 1)..Len(code) :
                                  CharAt(code, j) = "}" /\ count("{", j) = count("}", j)}
                      close == IF ends = {} THEN Len(code) + 1
                               ELSE CHOOSE j \in ends : \A k \in ends : j <= k
                      expr == trim(SubSeq(code, v + 1, close - 1))
                  IN  IF close > Len(code) \/ expr = "" THEN ParseFailure
                      ELSE ParseAttrs(code, close + 1,
                               Append(acc, [name |-> name, value |-> "JSXExpressionContainer",
                                            text |-> expr]))
             ELSE ParseFailure
        ELSE ParseAttrs(code, p + n, Append(acc, [name |-> name, value |-> "null", text |-> ""]))

\* the element tree from pos on: stack holds the open elements, done counts
\* the finished top-level elements, acc the opening elements met so far
\* an opening element at position at (past its "<"), inside the open
\* elements of stack
RECURSIVE ParseElements(_, _, _, _, _)
OpenElement(code, at, stack, done, acc) ==
    With(RunLength(code, at, ElementNameChars, TRUE), LAMBDA n :
    With(IF n = 0 THEN ParseAttrs(code, SkipSpace(code, at), <<>>)
         ELSE ParseAttrs(code, at + n, <<>>), LAMBDA a :
        IF Len(stack) = 0 /\ done >= 1 THEN ParseFailure
        ELSE IF ~a.ok THEN ParseFailure
        ELSE IF n = 0 /\ (a.attrs # <<>> \/ a.selfClosing) THEN ParseFailure
        ELSE ParseElements(code, a.next,
                           IF a.selfClosing THEN stack ELSE Append(stack, SubSeq(code, at, at + n - 1)),
                           IF a.selfClosing /\ Len(stack) = 0 THEN done + 1 ELSE done,
                           Append(acc, [name |-> SubSeq(code, at, at + n - 1), attrs |-> a.attrs]))))

\* a closing element at position at (past its "</")
CloseElement(code, at, stack, done, acc) ==
    With(RunLength(code, at, ElementNameChars, TRUE), LAMBDA n :
    With(SkipSpace(code, at + n), LAMBDA gt :
        IF gt > Len(code) \/ CharAt(code, gt) # ">" \/ Len(stack) = 0 THEN ParseFailure
        ELSE IF stack[Len(stack)] # SubSeq(code, at, at + n - 1) THEN ParseFailure
        ELSE ParseElements(code, gt + 1, SubSeq(stack, 1, Len(stack) - 1),
                           IF Len(stack) = 1 THEN done + 1 ELSE done, acc)))

\* the element tree from pos on: stack holds the open elements, done counts
\* the finished top-level elements, acc the opening elements met so far
ParseElements(code, pos, stack, done, acc) ==
    With(pos + RunLength(code, pos, {"<"}, FALSE), LAMBDA lt :
        IF Len(stack) = 0 /\ trim(SubSeq(code, pos, lt - 1)) # "" THEN ParseFailure
        ELSE IF lt > Len(code) THEN [ok |-> Len(stack) = 0, elements |-> acc]
        ELSE IF lt < Len(code) /\ CharAt(code, lt + 1) = "/"
        THEN CloseElement(code, lt + 2, stack, done, acc)
        ELSE OpenElement(code, lt + 1, stack, done, acc))

parse(code) ==
    With(ParseImports(code, 1, <<>>), LAMBDA imports :
        IF ~imports.ok THEN ParseFailure
        ELSE With(ParseElements(code, imports.next, <<>>, 0, <<>>), LAMBDA body :
                IF ~body.ok THEN ParseFailure
                ELSE [ok |-> TRUE, sources |-> imports.sources, elements |-> body.elements]))

-----------------------------------------------------------------------------
(* patcher/patcher.ts. The Babel parser, traversal and generator are        *)
(* modelled on the module text of the validator: import lines followed by   *)
(* at most one JSX element tree, which is the first element a traversal     *)
(* meets. An absent message is NoValue.                                     *)

\* the import lines of a module that parses
ModuleHead(code) == SubSeq(code, 1, ParseImports(code, 1, <<>>).next - 1)

\* the text of its JSX element tree
ModuleElement(code) == trim(SubSeq(code, ParseImports(code, 1, <<>>).next, Len(code)))

FallbackMessage == "Fallback: replaced entire file (no incremental patch possible)."

\* applyAstPatch whose fallbacks keep the old code
applyAstPatchKeepOld(oldCode, newCode, fault) ==
    With(parse(oldCode), LAMBDA oldAst :
    With(parse(newCode), LAMBDA newAst :
        IF ~oldAst.ok \/ ~newAst.ok
        THEN [code |-> oldCode, success |-> FALSE, message |-> "Unexpected token"]
        ELSE IF oldAst.elements # <<>> /\ newAst.elements # <<>>
        THEN IF fault = "splice"
             THEN [code |-> oldCode, success |-> FALSE, message |-> "replaceWith failed"]
             ELSE [code |-> ModuleHead(oldCode) \o ModuleElement(newCode),
                   success |-> TRUE, message |-> NoValue]
        ELSE [code |-> oldCode, success |-> TRUE, message |-> FallbackMessage]))

\* fault = "splice": path.replaceWith throws. A parse error and a failed
\* splice are caught and answered with the error's message.
applyAstPatch(oldCode, newCode, fault) ==
    With(parse(oldCode), LAMBDA oldAst :
    With(parse(newCode), LAMBDA newAst :
        IF ~oldAst.ok \/ ~newAst.ok
        THEN [code |-> newCode, success |-> FALSE, message |-> "Unexpected token"]
        ELSE IF oldAst.elements # <<>> /\ newAst.elements # <<>>
        THEN IF fault = "splice"
             THEN [code |-> newCode, success |-> FALSE, message |-> "replaceWith failed"]
             ELSE [code |-> ModuleHead(oldCode) \o ModuleElement(newCode),
                   success |-> TRUE, message |-> NoValue]
        ELSE [code |-> newCode, success |-> TRUE, message |-> FallbackMessage]))

ValidationError(type, message) == [type |-> type, message |-> message]

isJSXIdentifier(name) == name # "" /\ CharsOf(name) \cap {".", ":"} = {}

IdentChars == WordChars \cup {"$"}

\* the identifier tokens of an expression that lie outside string literals
IdentifierStarts(expr) ==
    {i \in 1..Len(expr) :
        /\ CharAt(expr, i) \in IdentChars \ CharsOf(DIGITS)
        /\ (i = 1 \/ CharAt(expr, i - 1) \notin IdentChars)
        /\ Cardinality({j \in 1..(i - 1) : CharAt(expr, j) = "\""}) % 2 = 0
        /\ Cardinality({j \in 1..(i - 1) : CharAt(expr, j) = "'"}) % 2 = 0}

\* CallExpression, MemberExpression and Identifier visitors on one expression
ExpressionErrors(expr) ==
    LET starts == IdentifierStarts(expr)
        nth(k) == CHOOSE i \in starts : Cardinality({j \in starts : j < i}) = k - 1
        token(i) == SubSeq(expr, i, i + RunLength(expr, i, IdentChars, TRUE) - 1)
        after(i) == SkipSpace(expr, i + RunLength(expr, i, IdentChars, TRUE))
        prev(i) == IF i = 1 THEN "" ELSE CharAt(trim(SubSeq(expr, 1, i - 1)),
                                                  Len(trim(SubSeq(expr, 1, i - 1))))
        follows(i, c) == after(i) <= Len(expr) /\ CharAt(expr, after(i)) = c
        errs(i) ==
            (IF token(i) = "require" /\ follows(i, "(") /\ prev(i) # "."
             THEN <<ValidationError("DynamicRequire", "Dynamic require() is disallowed.")>> ELSE <<>>)
            \o (IF token(i) = "eval" /\ follows(i, "(") /\ prev(i) # "."
                THEN <<ValidationError("EvalUsage", "eval() usage is disallowed.")>> ELSE <<>>)
            \o (IF token(i) \in {"window", "document", "globalThis"} /\ prev(i) # "."
                   /\ (follows(i, ".") \/ follows(i, "["))
                THEN <<ValidationError("ForbiddenGlobal",
                          "Access to global '" \o token(i) \o "' is disallowed in generated code.")>>
                ELSE <<>>)
            \o (IF token(i) = "eval"
                THEN <<ValidationError("EvalUsage", "eval identifier usage is disallowed.")>> ELSE <<>>)
    IN  FlattenSeq([k \in 1..Cardinality(starts) |-> errs(nth(k))])

\* the JSXAttribute visitor on one attribute of the opening element compName
AttributeErrors(compName, attr) ==
    LET attrName == attr.name
        stringValued ==
            \/ attr.value = "StringLiteral"
            \/ attr.value = "JSXExpressionContainer" /\ CharAt(attr.text, 1) \in {"\"", "'"}
        onHandler == Len(attrName) >= 3 /\ SubSeq(attrName, 1, 2) = "on"
                     /\ CharAt(attrName, 3) \in CharsOf(UPPERCASE)
        known == compName \in DOMAIN componentManifest.allowedComponents
    IN  IF ~isJSXIdentifier(attrName) THEN <<>>
        ELSE (IF onHandler /\ stringValued
              THEN <<ValidationError("InlineScript",
                        "Inline event handlers are disallowed (attribute=" \o attrName \o ").")>>
              ELSE <<>>)
             \o (IF attrName = "style"
                 THEN <<ValidationError("InlineScript",
                           "Inline style attributes are disallowed. Use manifest-controlled props or CSS classes.")>>
                 ELSE <<>>)
             \o (IF ~isJSXIdentifier(compName) THEN <<>>
                 ELSE IF ~known
                 THEN <<ValidationError("UnknownComponent",
                           "Component '" \o compName \o "' is not in the allowed component manifest.")>>
                 ELSE IF attrName \notin componentManifest.allowedComponents[compName]
                 THEN <<ValidationError("UnknownProp",
                           "Prop '" \o attrName \o "' is not allowed on component '" \o compName \o "'.")>>
                 ELSE <<>>)

ElementErrors(element) ==
    FlattenSeq([k \in 1..Len(element.attrs) |->
        AttributeErrors(element.name, element.attrs[k])
        \o (IF element.attrs[k].value = "JSXExpressionContainer"
            THEN ExpressionErrors(element.attrs[k].text) ELSE <<>>)])

validateJSX(code) ==
    With(parse(code), LAMBDA ast :
        IF ~ast.ok
        THEN [valid |-> FALSE, errors |-> <<ValidationError("Other", "Parse error")>>]
        ELSE With(SelectSeq(ast.sources, LAMBDA src : src \notin componentManifest.allowedImports),
                  LAMBDA forbidden :
             With([k \in 1..Len(forbidden) |->
                      ValidationError("ForbiddenImport",
                                      "Import from '" \o forbidden[k] \o "' is not allowed.")]
                  \o FlattenSeq([k \in 1..Len(ast.elements) |-> ElementErrors(ast.elements[k])]),
                  LAMBDA errors : [valid |-> Len(errors) = 0, errors |-> errors])))

\* the element tags that occur in a markup string that parses
ElementTags(code) ==
    With(parse(code), LAMBDA ast :
        IF ast.ok THEN {ast.elements[k].name : k \in 1..Len(ast.elements)} \ {""} ELSE {})

-----------------------------------------------------------------------------
(* agents/explainer.ts                                                      *)

generateLayoutReasoning(plan, userMessage) ==
    LET direction == IF plan.layout.direction = NoValue THEN "vertical" ELSE plan.layout.direction
        spacing == IF plan.layout.spacing = NoValue THEN "md" ELSE plan.layout.spacing
    IN  "Applied " \o direction \o " layout "
        \o (IF direction = "vertical"
            THEN "to create a natural top-to-bottom flow, which improves readability and is mobile-friendly."
            ELSE "to arrange components side-by-side, optimizing space usage for larger screens.")
        \o " Used " \o (IF spacing = "sm" THEN "compact" ELSE IF spacing = "lg" THEN "spacious" ELSE "default")
        \o " spacing "
        \o (IF spacing = "sm" THEN "to create a dense, information-rich layout."
            ELSE IF spacing = "lg" THEN "to provide breathing room and improve visual hierarchy."
            ELSE "for balanced visual separation.")

\* every node of the trees, a parent before its children
RECURSIVE AllNodes(_)
AllNodes(components) ==
    FlattenSeq([k \in 1..Len(components) |->
        <<components[k]>> \o AllNodes(components[k].children)])

\* the keys of the grouping, in the order in which they are first inserted,
\* each with the number of nodes grouped under it
groupComponentsByType(components) ==
    LET nodes == AllNodes(components)
        firsts == {k \in 1..Len(nodes) : \A j \in 1..(k - 1) : nodes[j].type # nodes[k].type}
        nth(i) == CHOOSE k \in firsts : Cardinality({j \in firsts : j < k}) = i - 1
    IN  [i \in 1..Cardinality(firsts) |->
            <<nodes[nth(i)].type,
              Cardinality({j \in 1..Len(nodes) : nodes[j].type = nodes[nth(i)].type})>>]

explanations ==
    [Header |-> "Provides clear page title and navigation context at the top of the layout.",
     Button |-> "Enables user interaction with clear call-to-action. Different variants (primary/secondary) guide visual hierarchy.",
     Input |-> "Collects specific text input from users. Type variants (email, password) provide semantic meaning and appropriate keyboard on mobile.",
     Select |-> "Provides constrained selection from predefined options, reducing input errors compared to free-text input.",
     TextArea |-> "Allows multi-line text input for longer content like messages, comments, or descriptions.",
     Modal |-> "Focuses user attention on critical actions or information by overlaying on the page content.",
     List |-> "Displays multiple items in a scannable, organized format. Improves readability for iterable data.",
     Grid |-> "Creates responsive multi-column layouts. Naturally adapts to available screen width.",
     Stack |-> "Provides flexible directional layout component for organizing content in rows or columns.",
     Alert |-> "Communicates status messages, warnings, or errors with color-coded visual indicators for quick recognition.",
     Divider |-> "Provides visual separation between content sections without adding layout complexity.",
     Text |-> "Ensures semantic text content with consistent typography scaling."]

getComponentExplanation(type, count) ==
    IF type = "Card"
    THEN "Encapsulates content in visually distinct "
         \o (IF count > 1 THEN "containers" ELSE "container")
         \o " for better visual hierarchy and organization."
    ELSE IF type \in DOMAIN explanations THEN explanations[type]
    ELSE "Included in layout (" \o ToString(count) \o " instance"
         \o (IF count # 1 THEN "s" ELSE "") \o ")"

generateComponentReasoning(plan) ==
    LET componentsByType == groupComponentsByType(plan.components)
    IN  [k \in 1..Len(componentsByType) |->
            <<componentsByType[k][1],
              getComponentExplanation(componentsByType[k][1], componentsByType[k][2])>>]

generateModificationReasoning(plan) ==
    IF plan.intent = "create" THEN "Generated new UI based on your requirements."
    ELSE IF plan.intent = "modify"
    THEN "Updated component props and layout to reflect your requested changes while preserving existing structure."
    ELSE IF plan.intent = "remove"
    THEN "Removed specified components from layout and reorganized remaining components for balanced composition."
    ELSE IF plan.intent = "regenerate"
    THEN "Regenerated UI with fresh component configuration based on original request and your feedback."
    ELSE IF plan.intent = "rollback"
    THEN "Restored previous version to specified point in generation history."
    ELSE "Applied modifications to your UI."

countTotalComponents(components) == Len(AllNodes(components))

containsComponentType(components, type) ==
    \E k \in 1..Len(AllNodes(components)) : AllNodes(components)[k].type = type

generateTradeoffs(plan) ==
    LET totalComponents == countTotalComponents(plan.components)
        tradeoffs ==
            (IF totalComponents > 5
             THEN <<"Multiple components increase visual complexity. Consider grouping into Cards for better organization.">>
             ELSE <<>>)
            \o (IF plan.layout.direction = "horizontal" /\ totalComponents > 3
                THEN <<"Horizontal layout with many components may overflow on smaller screens. Consider responsive breakpoints.">>
                ELSE <<>>)
            \o (IF containsComponentType(plan.components, "Input")
                   \/ containsComponentType(plan.components, "TextArea")
                THEN <<"Form components use standard HTML inputs. Add form state management and validation in parent component.">>
                ELSE <<>>)
            \o (IF containsComponentType(plan.components, "Modal")
                THEN <<"Modals require state management. Initialize with open={false} and add close handler.">>
                ELSE <<>>)
            \o (IF containsComponentType(plan.components, "List")
                THEN <<"Lists require data array. Bind items prop to dynamic data and implement renderItem template.">>
                ELSE <<>>)
    IN  IF Len(tradeoffs) = 0
        THEN <<"All components use standard library props. No external dependencies required.">>
        ELSE tradeoffs

generateConstraints ==
    <<"Only whitelisted deterministic components are used. Custom components cannot be added.",
      "No inline styles allowed. Use component library' built-in theming system.",
      "No external JavaScript libraries injected. All interactivity requires parent component handlers.",
      "Generated code is static JSX. Add event handlers and state management in parent component.",
      "Component nesting respects allowedChildren constraints defined in component schemas.",
      "All props are validated against component schema during generation.">>

generateExplanation(userMessage, plan, jsxCode) ==
    [layoutReasoning |-> generateLayoutReasoning(plan, userMessage),
     componentSelectionReasoning |-> generateComponentReasoning(plan),
     modificationReasoning |-> generateModificationReasoning(plan),
     tradeoffs |-> generateTradeoffs(plan),
     constraints |-> generateConstraints]

-----------------------------------------------------------------------------
(* utils/patching.ts                                                        *)

\* the distinct members of q in the order of their first occurrence
Distinct(q) == SelectSeq([k \in 1..Len(q) |-> <<k, q[k]>>],
                         LAMBDA e : \A j \in 1..(e[1] - 1) : q[j] # e[2])

DiffLimit == 10

\* calculateDiff listing a common tag name once per occurrence in the new code
calculateDiffPerOccurrence(oldCode, newCode) ==
    LET oldLines == SplitLines(oldCode)
        newLines == SplitLines(newCode)
        addedLines == SelectSeq(newLines, LAMBDA l : l \notin SeqToSet(oldLines))
        removedLines == SelectSeq(oldLines, LAMBDA l : l \notin SeqToSet(newLines))
        added == [k \in 1..Len(addedLines) |-> trim(addedLines[k])]
        removed == [k \in 1..Len(removedLines) |-> trim(removedLines[k])]
        oldComponents == SeqToSet(TagNames(oldCode))
        modified == SelectSeq(TagNames(newCode), LAMBDA name : name \in oldComponents)
    IN  [added |-> SubSeq(added, 1, Min(DiffLimit, Len(added))),
         removed |-> SubSeq(removed, 1, Min(DiffLimit, Len(removed))),
         modified |-> modified,
         summary |-> "Added " \o ToString(Len(added)) \o " lines, removed "
                     \o ToString(Len(removed)) \o " lines, modified "
                     \o ToString(Len(modified)) \o " components"]

\* calculateDiff counting in the summary the entries it lists
calculateDiffListedCount(oldCode, newCode) ==
    LET oldLines == SplitLines(oldCode)
        newLines == SplitLines(newCode)
        addedLines == SelectSeq(newLines, LAMBDA l : l \notin SeqToSet(oldLines))
        removedLines == SelectSeq(oldLines, LAMBDA l : l \notin SeqToSet(newLines))
        added == [k \in 1..Min(DiffLimit, Len(addedLines)) |-> trim(addedLines[k])]
        removed == [k \in 1..Min(DiffLimit, Len(removedLines)) |-> trim(removedLines[k])]
        oldComponents == SeqToSet(TagNames(oldCode))
        newComponents == Distinct(TagNames(newCode))
        both == SelectSeq(newComponents, LAMBDA e : e[2] \in oldComponents)
        modified == [k \in 1..Len(both) |-> both[k][2]]
    IN  [added |-> added,
         removed |-> removed,
         modified |-> modified,
         summary |-> "Added " \o ToString(Len(added)) \o " lines, removed "
                     \o ToString(Len(removed)) \o " lines, modified "
                     \o ToString(Len(modified)) \o " components"]

calculateDiff(oldCode, newCode) ==
    LET oldLines == SplitLines(oldCode)
        newLines == SplitLines(newCode)
        addedLines == SelectSeq(newLines, LAMBDA l : l \notin SeqToSet(oldLines))
        removedLines == SelectSeq(oldLines, LAMBDA l : l \notin SeqToSet(newLines))
        added == [k \in 1..Len(addedLines) |-> trim(addedLines[k])]
        removed == [k \in 1..Len(removedLines) |-> trim(removedLines[k])]
        oldComponents == SeqToSet(TagNames(oldCode))
        newComponents == Distinct(TagNames(newCode))
        both == SelectSeq(newComponents, LAMBDA e : e[2] \in oldComponents)
        modified == [k \in 1..Len(both) |-> both[k][2]]
    IN  [added |-> SubSeq(added, 1, Min(DiffLimit, Len(added))),
         removed |-> SubSeq(removed, 1, Min(DiffLimit, Len(removed))),
         modified |-> modified,
         summary |-> "Added " \o ToString(Len(added)) \o " lines, removed "
                     \o ToString(Len(removed)) \o " lines, modified "
                     \o ToString(Len(modified)) \o " components"]

-----------------------------------------------------------------------------
(* VersionService: the map `versions` and the list `versionOrder`           *)

VersionLimit == 50

\* uuidv4() in saveVersion: the n-th identifier the store draws
VersionId(n) == "v" \o ToString(n)

\* saveVersion with the oldest id shifted off the list but left in the map
saveVersionStaleMap(version) ==
    LET id == VersionId(nextId)
        fullVersion == [version EXCEPT !.id = id]
        set == [i \in DOMAIN versions \cup {id} |->
                   IF i = id THEN fullVersion ELSE versions[i]]
        pushed == Append(versionOrder, id)
    IN  [versions |-> set,
         versionOrder |-> IF Len(pushed) > VersionLimit THEN Tail(pushed) ELSE pushed,
         fullVersion |-> fullVersion]

\* saveVersion without the capacity limit
saveVersionKeepAll(version) ==
    LET id == VersionId(nextId)
        fullVersion == [version EXCEPT !.id = id]
    IN  [versions |-> [i \in DOMAIN versions \cup {id} |->
                          IF i = id THEN fullVersion ELSE versions[i]],
         versionOrder |-> Append(versionOrder, id),
         fullVersion |-> fullVersion]

saveVersion(version) ==
    LET id == VersionId(nextId)
        fullVersion == [version EXCEPT !.id = id]
        set == [i \in DOMAIN versions \cup {id} |->
                   IF i = id THEN fullVersion ELSE versions[i]]
        pushed == Append(versionOrder, id)
    IN  IF Len(pushed) > VersionLimit
        THEN [versions |-> [i \in DOMAIN set \ {Head(pushed)} |-> set[i]],
              versionOrder |-> Tail(pushed),
              fullVersion |-> fullVersion]
        ELSE [versions |-> set, versionOrder |-> pushed, fullVersion |-> fullVersion]

\* getVersion answering an unknown id with the newest version
getVersionOrNewest(id) ==
    IF id \in DOMAIN versions THEN <<versions[id]>>
    ELSE IF versionOrder # <<>> THEN <<versions[versionOrder[Len(versionOrder)]]>>
    ELSE <<>>

\* null is <<>>, a version v is <<v>>
getVersion(id) == IF id \in DOMAIN versions THEN <<versions[id]>> ELSE <<>>

getAllVersions ==
    With(SelectSeq(versionOrder, LAMBDA id : id \in DOMAIN versions), LAMBDA present :
        [k \in 1..Len(present) |-> versions[present[k]]])

Reverse(q) == [k \in 1..Len(q) |-> q[Len(q) + 1 - k]]

\* Array.prototype.slice(0, end); NaN is <<>>
SliceFromStart(q, end) ==
    LET stop == IF end = <<>> THEN 0
                ELSE IF end[1] < 0 THEN Max(Len(q) + end[1], 0)
                ELSE Min(end[1], Len(q))
    IN  SubSeq(q, 1, stop)

\* getVersionHistory without the second reverse()
getVersionHistoryNewestFirst(limit) == SliceFromStart(Reverse(getAllVersions), limit)

getVersionHistory(limit) == Reverse(SliceFromStart(Reverse(getAllVersions), limit))

getVersionCount == Cardinality(DOMAIN versions)

versionExists(id) == id \in DOMAIN versions

\* deleteVersion that leaves the id in the order list
deleteVersionKeepOrder(id) ==
    IF id \in DOMAIN versions
    THEN [versions |-> [i \in DOMAIN versions \ {id} |-> versions[i]],
          versionOrder |-> versionOrder,
          result |-> TRUE]
    ELSE [versions |-> versions, versionOrder |-> versionOrder, result |-> FALSE]

\* the store after deleteVersion(id), and what the call returns
deleteVersion(id) ==
    IF id \in DOMAIN versions
    THEN [versions |-> [i \in DOMAIN versions \ {id} |-> versions[i]],
          versionOrder |-> SelectSeq(versionOrder, LAMBDA vid : vid # id),
          result |-> TRUE]
    ELSE [versions |-> versions, versionOrder |-> versionOrder, result |-> FALSE]

\* the list is indexed from 1 here, so indexOf's -1 is "no position"
getAdjacentVersion(currentId, direction) ==
    IF ~\E k \in 1..Len(versionOrder) : versionOrder[k] = currentId THEN <<>>
    ELSE With(CHOOSE k \in 1..Len(versionOrder) :
                  /\ versionOrder[k] = currentId
                  /\ \A j \in 1..(k - 1) : versionOrder[j] # currentId, LAMBDA index :
         With(IF direction = "next" THEN index + 1 ELSE index - 1, LAMBDA nextIndex :
             IF nextIndex < 1 \/ nextIndex > Len(versionOrder) THEN <<>>
             ELSE getVersion(versionOrder[nextIndex])))

\* the store after clear()
clear == [versions |-> <<>>, versionOrder |-> <<>>]

versionToResponse(version) ==
    [id |-> version.id,
     plan |-> version.plan,
     generatedCode |-> version.generatedCode,
     explanation |-> version.explanation,
     diff |-> version.diffFromPrevious]

-----------------------------------------------------------------------------
(* index.ts: POST /api/generate                                             *)

StageOrder == <<"intentClassification", "intentCheck", "planGeneration", "planValidation",
                "emission", "securityCheck", "codeSafetyCheck", "explanation", "diff",
                "persist", "respond">>

\* the substitute with the reasoning of the failed attempt left in
defaultExplanationPartial ==
    [layoutReasoning |-> "Applied vertical layout",
     componentSelectionReasoning |-> <<>>,
     tradeoffs |-> <<>>,
     constraints |-> <<>>]

defaultExplanation ==
    [layoutReasoning |-> "Generated layout structure",
     componentSelectionReasoning |-> <<>>,
     tradeoffs |-> <<>>,
     constraints |-> <<>>]

\* generateStages without the return on a failed security check
generateStagesUnscanned(request, seed) ==
    IF request.message = NoValue \/ Len(trim(request.message)) = 0
    THEN [passed |-> FALSE, stages |-> <<>>,
          response |-> [status |-> 400, error |-> "Invalid request",
                        message |-> "Message is required"]]
    ELSE
    With(analyzeIntent(request), LAMBDA intentResult :
    With(validateIntentRequirements(intentResult.intent, request), LAMBDA intentValidation :
        IF ~intentValidation.valid
        THEN [passed |-> FALSE, stages |-> SubSeq(StageOrder, 1, 2),
              response |-> [status |-> 400, error |-> "Invalid intent",
                            message |-> intentValidation.error]]
        ELSE
    With(generatePlan(request.message, seed), LAMBDA plan :
    With(validatePlan(plan), LAMBDA planValidation :
        IF ~planValidation.valid
        THEN [passed |-> FALSE, stages |-> SubSeq(StageOrder, 1, 4),
              response |-> [status |-> 400, error |-> "Invalid plan",
                            errors |-> planValidation.errors]]
        ELSE
    With(generateJSX(plan), LAMBDA generatedCode :
    With(validateCodeSafety(generatedCode), LAMBDA codeSafetyValidation :
        IF ~codeSafetyValidation.valid
        THEN [passed |-> FALSE, stages |-> SubSeq(StageOrder, 1, 7),
              response |-> [status |-> 400, error |-> "Code safety validation failed",
                            errors |-> codeSafetyValidation.errors]]
        ELSE [passed |-> TRUE, stages |-> SubSeq(StageOrder, 1, 7),
              intentResult |-> intentResult,
              plan |-> plan,
              planComplexity |-> estimatePlanComplexity(plan),
              generatedCode |-> generatedCode,
              metadata |-> extractMetadata(generatedCode),
              explanation |-> generateExplanation(request.message, plan, generatedCode)]))))))

\* The handler from the request check to the code-safety check: the stages
\* it ran and either the response it returned or what it computed. The
\* random source of the identifiers drawn while planning is seed.
generateStages(request, seed) ==
    IF request.message = NoValue \/ Len(trim(request.message)) = 0
    THEN [passed |-> FALSE, stages |-> <<>>,
          response |-> [status |-> 400, error |-> "Invalid request",
                        message |-> "Message is required"]]
    ELSE
    With(analyzeIntent(request), LAMBDA intentResult :
    With(validateIntentRequirements(intentResult.intent, request), LAMBDA intentValidation :
        IF ~intentValidation.valid
        THEN [passed |-> FALSE, stages |-> SubSeq(StageOrder, 1, 2),
              response |-> [status |-> 400, error |-> "Invalid intent",
                            message |-> intentValidation.error]]
        ELSE
    With(generatePlan(request.message, seed), LAMBDA plan :
    With(validatePlan(plan), LAMBDA planValidation :
        IF planValidation.threw
        THEN [passed |-> FALSE, stages |-> SubSeq(StageOrder, 1, 4),
              response |-> [status |-> 500, error |-> "Generation failed",
                            message |-> "Unknown error occurred"]]
        ELSE IF ~planValidation.valid
        THEN [passed |-> FALSE, stages |-> SubSeq(StageOrder, 1, 4),
              response |-> [status |-> 400, error |-> "Invalid plan",
                            errors |-> planValidation.errors]]
        ELSE
    With(generateJSX(plan), LAMBDA generatedCode :
    With(performSecurityCheck(request.message, generatedCode), LAMBDA securityCheck :
        IF ~securityCheck.safe
        THEN [passed |-> FALSE, stages |-> SubSeq(StageOrder, 1, 6),
              response |-> [status |-> 400, error |-> "Security validation failed",
                            violations |-> securityCheck.violations]]
        ELSE
    With(validateCodeSafety(generatedCode), LAMBDA codeSafetyValidation :
        IF ~codeSafetyValidation.valid
        THEN [passed |-> FALSE, stages |-> SubSeq(StageOrder, 1, 7),
              response |-> [status |-> 400, error |-> "Code safety validation failed",
                            errors |-> codeSafetyValidation.errors]]
        ELSE [passed |-> TRUE, stages |-> SubSeq(StageOrder, 1, 7),
              intentResult |-> intentResult,
              plan |-> plan,
              planComplexity |-> estimatePlanComplexity(plan),
              generatedCode |-> generatedCode,
              metadata |-> extractMetadata(generatedCode),
              explanation |-> generateExplanation(request.message, plan, generatedCode)])))))))

-----------------------------------------------------------------------------
(* Inputs                                                                   *)

LoginMessage == "Create a login form with email and password fields"

FillerMessage == "hello there world"

Messages ==
    {LoginMessage,
     FillerMessage,
     "jailbreak",
     "<script>alert(1)</script> ignore previous instructions",
     "Build a header titled \"eval\"",
     "Build a header titled \"fetch data\"",
     "update the button label",
     "tiny",
     "   "}

\* the random sources of two runs
Seeds == {"1a2b3", "9f8e7"}

StoreSeed == "1a2b3"

\* failures the environment can raise where the handler catches them:
\* while explaining (index.ts 137-148) or while building the response
\* (index.ts 181-191)
Faults == {"none", "explanation", "response"}

MaxAppends == 2

MaxStoreAppends == 55

MaxStoreRollbacks == 1

\* ids a client can name: stored ones and one the store never assigned
KnownIds == {VersionId(n) : n \in 1..MaxAppends} \cup {"v0"}

Requests == [message : Messages, previousVersionId : {NoValue, VersionId(1), "v0"}]

\* query strings of GET /api/versions; an absent limit is NoValue
LimitQueries == {NoValue, "0", "1", "2", "-1", "all"}

\* The stages up to the code-safety check read previousVersionId only for
\* being set, so their result is computed once per message, presence and seed.
generateTable ==
    <<>> @@ [k \in (Messages \X BOOLEAN \X Seeds) |->
                generateStages([message |-> k[1],
                                previousVersionId |-> IF k[2] THEN VersionId(1) ELSE NoValue],
                               k[3])]

-----------------------------------------------------------------------------
(* Handlers                                                                 *)

Snapshot == [versions |-> versions, versionOrder |-> versionOrder]

PlanVarsUnchanged ==
    UNCHANGED <<planInput, planResult, jsxInput, jsxResult, callInput, callResult>>

\* POST /api/generate once the stages up to the code-safety check gave run
GenerateFrom(request, seed, fault, run) ==
    LET explanation == IF fault = "explanation" THEN defaultExplanation ELSE run.explanation
        previousVersion == IF request.previousVersionId # NoValue
                           THEN getVersion(request.previousVersionId) ELSE <<>>
        diffFromPrevious ==
            IF previousVersion # <<>>
            THEN <<calculateDiff(previousVersion[1].generatedCode, run.generatedCode)>>
            ELSE <<>>
        version == [id |-> NoValue,
                    userMessage |-> request.message,
                    plan |-> run.plan,
                    generatedCode |-> run.generatedCode,
                    explanation |-> explanation,
                    diffFromPrevious |-> diffFromPrevious,
                    timestamp |-> clock,
                    metadata |-> [intent |-> run.intentResult.intent,
                                  componentCount |-> run.metadata.componentCount,
                                  linesOfCode |-> run.metadata.linesOfCode]]
        saved == saveVersion(version)
    IN  /\ before' = Snapshot
        /\ lastRequest' = [op |-> "generate", message |-> request.message,
                           previousVersionId |-> request.previousVersionId, seed |-> seed,
                           fault |-> fault]
        /\ UNCHANGED rollbacks
        /\ PlanVarsUnchanged
        /\ IF ~run.passed
           THEN /\ fault = "none"
                /\ response' = run.response
                /\ stages' = run.stages
                /\ UNCHANGED <<versions, versionOrder, nextId, clock>>
           ELSE /\ versions' = saved.versions
                /\ versionOrder' = saved.versionOrder
                /\ nextId' = nextId + 1
                /\ clock' = clock + 1
                /\ stages' = run.stages \o <<"explanation">>
                             \o (IF previousVersion # <<>> THEN <<"diff">> ELSE <<>>)
                             \o <<"persist">>
                             \o (IF fault = "response" THEN <<>> ELSE <<"respond">>)
                /\ response' =
                     IF fault = "response"
                     THEN [status |-> 500, error |-> "Generation failed",
                           message |-> "Error preparing response"]
                     ELSE [status |-> 200, success |-> TRUE,
                           data |-> versionToResponse(saved.fullVersion),
                           metadata |-> [intent |-> run.intentResult.intent,
                                         intentConfidence |-> run.intentResult.confidence,
                                         complexity |-> run.planComplexity.complexity,
                                         generationTime |-> clock]]

\* POST /api/generate
Generate(request, seed, fault) ==
    GenerateFrom(request, seed, fault,
                 generateTable[<<request.message, request.previousVersionId # NoValue, seed>>])

\* rollbackVersion without the message marker
rollbackVersionUnmarked(version) ==
    [id |-> NoValue,
     userMessage |-> version.userMessage,
     plan |-> version.plan,
     generatedCode |-> version.generatedCode,
     explanation |-> version.explanation,
     diffFromPrevious |-> <<>>,
     timestamp |-> clock,
     metadata |-> [intent |-> "rollback",
                   componentCount |-> version.metadata.componentCount,
                   linesOfCode |-> version.metadata.linesOfCode]]

\* the version POST /api/rollback/:id builds from a stored one
rollbackVersion(version) ==
    [id |-> NoValue,
     userMessage |-> "[ROLLBACK] " \o version.userMessage,
     plan |-> version.plan,
     generatedCode |-> version.generatedCode,
     explanation |-> version.explanation,
     diffFromPrevious |-> <<>>,
     timestamp |-> clock,
     metadata |-> [intent |-> "rollback",
                   componentCount |-> version.metadata.componentCount,
                   linesOfCode |-> version.metadata.linesOfCode]]

\* POST /api/rollback/:id
Rollback(id) ==
    LET version == getVersion(id)
        saved == saveVersion(rollbackVersion(version[1]))
    IN  /\ before' = Snapshot
        /\ lastRequest' = [op |-> "rollback", id |-> id]
        /\ stages' = <<>>
        /\ PlanVarsUnchanged
        /\ IF version = <<>>
           THEN /\ response' = [status |-> 404, error |-> "Version not found"]
                /\ UNCHANGED <<versions, versionOrder, nextId, clock, rollbacks>>
           ELSE /\ versions' = saved.versions
                /\ versionOrder' = saved.versionOrder
                /\ nextId' = nextId + 1
                /\ clock' = clock + 1
                /\ rollbacks' = rollbacks + 1
                /\ response' = [status |-> 200, success |-> TRUE,
                                data |-> versionToResponse(saved.fullVersion),
                                message |-> "Rolled back successfully"]

\* GET /api/versions/:id
GetVersion(id) ==
    LET version == getVersion(id)
    IN  /\ before' = Snapshot
        /\ lastRequest' = [op |-> "getVersion", id |-> id]
        /\ stages' = <<>>
        /\ response' = IF version = <<>>
                       THEN [status |-> 404, error |-> "Version not found"]
                       ELSE [status |-> 200, success |-> TRUE,
                             data |-> versionToResponse(version[1])]
        /\ UNCHANGED <<versions, versionOrder, nextId, clock, rollbacks>>
        /\ PlanVarsUnchanged

\* parseInt of a query string: NaN is <<>>
parseInt(text) ==
    LET negative == Len(text) > 0 /\ CharAt(text, 1) = "-"
        from == IF negative THEN 2 ELSE 1
        n == RunLength(text, from, CharsOf(DIGITS), TRUE)
        digit(c) == (CHOOSE i \in 1..Len(DIGITS) : CharAt(DIGITS, i) = c) - 1
        value[k \in 0..n] == IF k = 0 THEN 0
                             ELSE 10 * value[k - 1] + digit(CharAt(text, from + k - 1))
    IN  IF n = 0 THEN <<>> ELSE <<IF negative THEN 0 - value[n] ELSE value[n]>>

DefaultLimit == 10

\* GET /api/versions
ListVersions(query) ==
    /\ before' = Snapshot
    /\ lastRequest' = [op |-> "listVersions", limit |-> query]
    /\ stages' = <<>>
    /\ response' =
          With(getVersionHistory(IF query \in {NoValue, ""} THEN <<DefaultLimit>>
                                 ELSE parseInt(query)), LAMBDA history :
              [status |-> 200, success |-> TRUE,
               data |-> [k \in 1..Len(history) |->
                            [id |-> history[k].id,
                             timestamp |-> history[k].timestamp,
                             userMessage |-> history[k].userMessage,
                             metadata |-> history[k].metadata]],
               total |-> getVersionCount])
    /\ UNCHANGED <<versions, versionOrder, nextId, clock, rollbacks>>
    /\ PlanVarsUnchanged

-----------------------------------------------------------------------------
(* Plan and markup validation runs                                          *)

PlanKinds == {"Card", "Button", "Text", "CustomWidget"}

SampleProps(kind) ==
    IF kind = "Card" THEN << <<"title", Str("Content")>> >>
    ELSE IF kind = "Button" THEN << <<"children", Str("Go")>>, <<"variant", Str("primary")>> >>
    ELSE IF kind = "Text" THEN << <<"content", Str("hi")>> >>
    ELSE <<>>

\* root nodes: a kind, its sample props or none, no child or one child
PlanRoots ==
    {Node("n1", kind, props, children) :
        kind \in PlanKinds,
        props \in {<<>>} \cup {SampleProps(k) : k \in PlanKinds},
        children \in {<<>>} \cup {<<Node("n2", k, SampleProps(k), <<>>)>> : k \in PlanKinds}}

\* a plan with the given root nodes
PlanOf(components, direction) ==
    [intent |-> "create", components |-> components,
     layout |-> [direction |-> direction, spacing |-> "md"], description |-> "plan"]

\* a node without a props map
BareNode(id, type) == [id |-> id, type |-> type, children |-> <<>>]

\* request bodies that are no well-formed plan: null, an object without a
\* components array, a node named after an inherited key, nodes without props
MalformedPlans ==
    {NullPlan, [description |-> "plan"],
     PlanOf(<<Node("n1", "constructor", <<>>, <<>>)>>, "vertical"),
     PlanOf(<<BareNode("n1", "Button")>>, "vertical"),
     PlanOf(<<BareNode("n1", "CustomWidget")>>, "vertical")}

SiblingKinds == {"CustomWidget", "Button", "Card", "toString"}

\* a root for a plan of two roots: its props are none or those of a Button,
\* its child is none or a Text without its required content
SiblingRoots(id) ==
    {Node(id, kind, props, children) :
        kind \in SiblingKinds,
        props \in {<<>>, SampleProps("Button")},
        children \in {<<>>, <<Node(id \o "c", "Text", <<>>, <<>>)>>}}

PlanInputs ==
    {PlanOf(components, direction) :
        components \in {<<>>} \cup {<<r>> : r \in PlanRoots},
        direction \in {"vertical", "diagonal"}}
    \cup MalformedPlans
    \cup {PlanOf(<<first, second>>, "vertical") :
             first \in SiblingRoots("n1"), second \in SiblingRoots("n2")}

\* POST /api/validate-plan with the body planInput
ValidatePlan ==
    LET validation == validatePlan(planInput[1])
    IN  /\ planInput # <<>>
        /\ planResult = <<>>
        /\ planResult' = IF validation.threw
                         THEN <<[status |-> 500, error |-> "Validation failed"]>>
                         ELSE <<[status |-> 200, success |-> TRUE,
                                 valid |-> validation.valid, errors |-> validation.errors]>>
        /\ UNCHANGED <<versions, versionOrder, nextId, clock, rollbacks, response, stages,
                       before, lastRequest, planInput, jsxInput, jsxResult, callInput,
                       callResult>>

MarkupTags == {"Button", "Text", "Foo", "Card"}

MarkupAttrs == {"", " variant=\"primary\"", " className=\"x\"", " onClick=\"go()\"",
                " style={{}}", " title=\"T\""}

MarkupInputs ==
    {"<" \o tag \o attrs \o " />" : tag \in MarkupTags, attrs \in MarkupAttrs}
    \cup {"<" \o tag \o attrs \o ">" \o text \o "</" \o tag \o ">" :
             tag \in MarkupTags, attrs \in MarkupAttrs,
             text \in {"", "hi"} \cup {"<" \o child \o " />" : child \in MarkupTags}}
    \cup {"<Card />\n<Button />", "<Card><Button></Card>"}

\* one run of the structural validator on the markup jsxInput
ValidateMarkup ==
    /\ jsxInput # <<>>
    /\ jsxResult = <<>>
    /\ jsxResult' = <<validateJSX(jsxInput[1])>>
    /\ UNCHANGED <<versions, versionOrder, nextId, clock, rollbacks, response, stages,
                   before, lastRequest, planInput, planResult, jsxInput, callInput,
                   callResult>>

-----------------------------------------------------------------------------
(* Specifications                                                           *)

ServiceInit ==
    /\ versions = <<>>
    /\ versionOrder = <<>>
    /\ nextId = 1
    /\ clock = 1
    /\ rollbacks = 0
    /\ response = [status |-> 0]
    /\ stages = <<>>
    /\ before = [versions |-> <<>>, versionOrder |-> <<>>]
    /\ lastRequest = [op |-> "none"]

\* no utility has been called directly
NoCall == callInput = <<>> /\ callResult = <<>>

Init ==
    /\ ServiceInit
    /\ planInput = <<>>
    /\ planResult = <<>>
    /\ jsxInput = <<>>
    /\ jsxResult = <<>>
    /\ NoCall

\* the service with varied requests and a short history
Next ==
    \/ \E request \in Requests, seed \in Seeds, fault \in Faults :
          nextId <= MaxAppends /\ Generate(request, seed, fault)
    \/ \E id \in KnownIds : nextId <= MaxAppends /\ Rollback(id)
    \/ \E id \in KnownIds : GetVersion(id)
    \/ \E query \in LimitQueries : ListVersions(query)

Spec == Init /\ [][Next]_vars

\* ids named in the long history: the oldest and the newest stored one, the
\* one evicted last, and one never assigned
StoreIds ==
    (IF versionOrder = <<>> THEN {} ELSE {Head(versionOrder), versionOrder[Len(versionOrder)]})
    \cup {VersionId(nextId - 1 - VersionLimit), "v0"}

\* query strings of GET /api/versions on the long history: no limit, a limit
\* below the default and one above the capacity
StoreLimitQueries == {NoValue, "3", "60"}

\* the service filled past its capacity by one request repeated
NextStore ==
    \/ /\ nextId <= MaxStoreAppends
       /\ Generate([message |-> FillerMessage, previousVersionId |-> NoValue], StoreSeed, "none")
    \/ \E id \in StoreIds :
          nextId <= MaxStoreAppends /\ rollbacks < MaxStoreRollbacks /\ Rollback(id)
    \/ \E id \in StoreIds : GetVersion(id)
    \/ \E query \in StoreLimitQueries : ListVersions(query)

SpecStore == Init /\ [][NextStore]_vars

\* validatePlan applied to each plan of PlanInputs
InitPlan ==
    /\ ServiceInit
    /\ planInput \in {<<plan>> : plan \in PlanInputs}
    /\ planResult = <<>>
    /\ jsxInput = <<>>
    /\ jsxResult = <<>>
    /\ NoCall

NextPlan == ValidatePlan

SpecPlan == InitPlan /\ [][NextPlan]_vars

\* validateJSX applied to each markup of MarkupInputs
InitJsx ==
    /\ ServiceInit
    /\ planInput = <<>>
    /\ planResult = <<>>
    /\ jsxInput \in {<<code>> : code \in MarkupInputs}
    /\ jsxResult = <<>>
    /\ NoCall

NextJsx == ValidateMarkup

SpecJsx == InitJsx /\ [][NextJsx]_vars

\* the service variables a direct call of a utility leaves alone
ServiceVarsUnchanged ==
    UNCHANGED <<versions, versionOrder, nextId, clock, rollbacks, response, stages, before,
                lastRequest, planInput, planResult, jsxInput, jsxResult, callInput>>

DiffTags == {"Card", "Button", "Text"}

DiffSeparators == {"", "\n"}

\* markup of twelve lines: more than calculateDiff lists
DiffLongCode ==
    "<Item1/>\n<Item2/>\n<Item3/>\n<Item4/>\n<Item5/>\n<Item6/>\n"
    \o "<Item7/>\n<Item8/>\n<Item9/>\n<Item10/>\n<Item11/>\n<Item12/>"

\* markup with an indented line and a tag that occurs twice
DiffNestedCode == "<Card>\n  <Button/>\n  <Button/>\n</Card>"

\* markup of one or two self-closing elements, on one line or on two, and the
\* two longer markups
DiffCodes ==
    {"<" \o tag \o "/>" : tag \in DiffTags}
    \cup {"<" \o first \o "/>" \o sep \o "<" \o second \o "/>" :
             first \in DiffTags, sep \in DiffSeparators, second \in DiffTags}
    \cup {DiffLongCode, DiffNestedCode}

\* calculateDiff(oldCode, newCode) called once
CalculateDiff ==
    /\ callInput # <<>>
    /\ callInput[1].op = "calculateDiff"
    /\ callResult = <<>>
    /\ callResult' = <<calculateDiff(callInput[1].oldCode, callInput[1].newCode)>>
    /\ ServiceVarsUnchanged

\* calculateDiff applied to each pair of DiffCodes
InitDiff ==
    /\ ServiceInit
    /\ planInput = <<>>
    /\ planResult = <<>>
    /\ jsxInput = <<>>
    /\ jsxResult = <<>>
    /\ callInput \in {<<[op |-> "calculateDiff", oldCode |-> oldCode, newCode |-> newCode]>> :
                         oldCode \in DiffCodes, newCode \in DiffCodes}
    /\ callResult = <<>>

SpecDiff == InitDiff /\ [][CalculateDiff]_vars

\* phrases of a request: keywords of each intent, one shared by two intents
\* ("remove"), one holding another intent's keyword ("regenerate" holds
\* "generate"), capitals, a phrase without keyword and an injection signature
IntentPhrases ==
    {"Create", "build a", "UPDATE", "remove", "delete", "redo", "rollback",
     "regenerate", "hello", "jailbreak"}

\* requests of two phrases, with and without a prior version
IntentRequests ==
    {[message |-> first \o " " \o second, previousVersionId |-> previous] :
        first \in IntentPhrases, second \in IntentPhrases, previous \in {NoValue, VersionId(1)}}

\* analyzeIntent(request) called once
AnalyzeIntent ==
    /\ callInput # <<>>
    /\ callInput[1].op = "analyzeIntent"
    /\ callResult = <<>>
    /\ callResult' = <<analyzeIntent(callInput[1].request)>>
    /\ ServiceVarsUnchanged

\* analyzeIntent applied to each request of IntentRequests
InitIntent ==
    /\ ServiceInit
    /\ planInput = <<>>
    /\ planResult = <<>>
    /\ jsxInput = <<>>
    /\ jsxResult = <<>>
    /\ callInput \in {<<[op |-> "analyzeIntent", request |-> request]>> :
                         request \in IntentRequests}
    /\ callResult = <<>>

SpecIntent == InitIntent /\ [][AnalyzeIntent]_vars

\* the variables of the HTTP handlers, which a direct call of the store leaves alone
HandlerVarsUnchanged ==
    UNCHANGED <<rollbacks, response, stages, before, lastRequest,
                planInput, planResult, jsxInput, jsxResult>>

MaxServiceAppends == 52

\* the n-th record handed to saveVersion
NewVersion(n) ==
    [id |-> NoValue,
     userMessage |-> "message " \o ToString(n),
     plan |-> PlanOf(<<BareNode("n1", "Button")>>, "vertical"),
     generatedCode |-> "<Button/>",
     explanation |-> "",
     diffFromPrevious |-> <<>>,
     timestamp |-> clock,
     metadata |-> [intent |-> "create", componentCount |-> 1, linesOfCode |-> 1]]

\* versionService.saveVersion(version)
SaveVersion ==
    LET saved == saveVersion(NewVersion(nextId))
    IN  /\ nextId <= MaxServiceAppends
        /\ callInput' = <<[op |-> "saveVersion"]>>
        /\ callResult' = <<saved.fullVersion>>
        /\ versions' = saved.versions
        /\ versionOrder' = saved.versionOrder
        /\ nextId' = nextId + 1
        /\ clock' = clock + 1
        /\ HandlerVarsUnchanged

\* ids handed to the store's methods: the oldest and the newest stored one and
\* one never assigned
ServiceIds ==
    (IF versionOrder = <<>> THEN {} ELSE {Head(versionOrder), versionOrder[Len(versionOrder)]})
    \cup {"v0"}

\* the reading methods and their arguments
ServiceReads ==
    {[op |-> "getVersion", id |-> id] : id \in ServiceIds}
    \cup {[op |-> "versionExists", id |-> id] : id \in ServiceIds}
    \cup {[op |-> "getAdjacentVersion", id |-> id, direction |-> direction] :
             id \in ServiceIds, direction \in {"next", "previous"}}
    \cup {[op |-> "getVersionHistory", limit |-> 3]}

\* versionService.getVersion(id), versionExists(id), getAdjacentVersion(id,
\* direction) or getVersionHistory(limit)
ReadVersions(call) ==
    /\ callInput' = <<call>>
    /\ callResult' =
          IF call.op = "getVersion" THEN getVersion(call.id)
          ELSE IF call.op = "versionExists" THEN <<versionExists(call.id)>>
          ELSE IF call.op = "getAdjacentVersion"
          THEN getAdjacentVersion(call.id, call.direction)
          ELSE getVersionHistory(<<call.limit>>)
    /\ UNCHANGED <<versions, versionOrder, nextId, clock>>
    /\ HandlerVarsUnchanged

\* no deleteVersion and no clear has touched the store: it holds the newest
\* ids, as many as were assigned and at most VersionLimit
Untouched ==
    With(Min(nextId - 1, VersionLimit), LAMBDA n :
        /\ Len(versionOrder) = n
        /\ \A k \in 1..n : versionOrder[k] = VersionId(nextId - 1 - n + k))

\* versionService.deleteVersion(id), once in a history
DeleteVersion(id) ==
    LET deleted == deleteVersion(id)
    IN  /\ Untouched
        /\ callInput' = <<[op |-> "deleteVersion", id |-> id]>>
        /\ callResult' = <<deleted.result>>
        /\ versions' = deleted.versions
        /\ versionOrder' = deleted.versionOrder
        /\ UNCHANGED <<nextId, clock>>
        /\ HandlerVarsUnchanged

\* versionService.clear(), once in a history
Clear ==
    /\ Untouched
    /\ callInput' = <<[op |-> "clear"]>>
    /\ callResult' = <<>>
    /\ versions' = clear.versions
    /\ versionOrder' = clear.versionOrder
    /\ UNCHANGED <<nextId, clock>>
    /\ HandlerVarsUnchanged

\* the store's methods called directly, past the capacity
NextVersions ==
    \/ SaveVersion
    \/ \E call \in ServiceReads : ReadVersions(call)
    \/ \E id \in ServiceIds : DeleteVersion(id)
    \/ Clear

SpecVersions == Init /\ [][NextVersions]_vars

\* phrases of a request to the planner: the layout words, the words that add
\* a header, the form words, vocabulary components and a word without effect
PlannerPhrases ==
    {"Horizontal", "compact", "spacious", "header", "title", "login form", "email",
     "password", "button", "card", "input", "modal", "grid", "textarea", "stack",
     "list", "select", "alert", "hello"}

\* messages of two phrases, and two longer ones
PlannerMessages ==
    {first \o " " \o second : first \in PlannerPhrases, second \in PlannerPhrases}
    \cup {LoginMessage, "compact spacious horizontal header with a button and an input"}

\* generatePlan(userMessage) called once
GeneratePlan ==
    /\ callInput # <<>>
    /\ callInput[1].op = "generatePlan"
    /\ callResult = <<>>
    /\ callResult' = <<generatePlan(callInput[1].userMessage, callInput[1].seed)>>
    /\ ServiceVarsUnchanged

\* generatePlan applied to each message of PlannerMessages
InitPlanner ==
    /\ ServiceInit
    /\ planInput = <<>>
    /\ planResult = <<>>
    /\ jsxInput = <<>>
    /\ jsxResult = <<>>
    /\ callInput \in {<<[op |-> "generatePlan", userMessage |-> userMessage, seed |-> StoreSeed]>> :
                         userMessage \in PlannerMessages}
    /\ callResult = <<>>

SpecPlanner == InitPlanner /\ [][GeneratePlan]_vars

\* module texts handed to the patcher: one element with and without an
\* import line, a fragment, a nested element, no element, and texts that do
\* not parse
PatchCodes ==
    {"<Card/>",
     "<Button variant=\"primary\"></Button>",
     "<><Text/></>",
     "<Card>\n  <Button/>\n</Card>",
     "import React from 'react'\n<Card/>",
     "import { Button } from './library'\n<Button/>",
     "import React from 'react'\n",
     "",
     "<Card",
     "<Card></Button>",
     "import React from 'react\n<Card/>"}

PatchFaults == {"none", "splice"}

\* applyAstPatch(oldCode, newCode) called once
ApplyAstPatch ==
    /\ callInput # <<>>
    /\ callInput[1].op = "applyAstPatch"
    /\ callResult = <<>>
    /\ callResult' = <<applyAstPatch(callInput[1].oldCode, callInput[1].newCode,
                                     callInput[1].fault)>>
    /\ ServiceVarsUnchanged

\* applyAstPatch applied to each pair of PatchCodes
InitPatch ==
    /\ ServiceInit
    /\ planInput = <<>>
    /\ planResult = <<>>
    /\ jsxInput = <<>>
    /\ jsxResult = <<>>
    /\ callInput \in {<<[op |-> "applyAstPatch", oldCode |-> oldCode, newCode |-> newCode,
                         fault |-> fault]>> :
                         oldCode \in PatchCodes, newCode \in PatchCodes, fault \in PatchFaults}
    /\ callResult = <<>>

SpecPatch == InitPatch /\ [][ApplyAstPatch]_vars

-----------------------------------------------------------------------------
(* Properties                                                               *)

LastGenerate == lastRequest.op = "generate"

StoreUnchanged == versions = before.versions /\ versionOrder = before.versionOrder

Appended == Len(versionOrder) > 0
            /\ versionOrder[Len(versionOrder)] \notin DOMAIN before.versions

\* the stage order the pipeline is to follow
PipelineOrder == <<"intentClassification", "intentCheck", "planGeneration", "planValidation",
                   "emission", "securityCheck", "codeSafetyCheck", "explanation", "diff",
                   "persist", "respond">>

\* what each validation decides for a request, each computed on its own
Verdicts(message, hasPrevious, seed) ==
    With([message |-> message,
          previousVersionId |-> IF hasPrevious THEN VersionId(1) ELSE NoValue], LAMBDA request :
    With(generatePlan(message, seed), LAMBDA plan :
    With(generateJSX(plan), LAMBDA code :
        [blank |-> Len(trim(message)) = 0,
         injection |-> detectPromptInjection(message),
         classified |-> analyzeIntent(request),
         intent |-> validateIntentRequirements(analyzeIntent(request).intent, request),
         structure |-> validateJSX(code),
         plan |-> validatePlan(plan),
         security |-> performSecurityCheck(message, code),
         safety |-> validateCodeSafety(code)])))

verdictTable ==
    <<>> @@ [k \in (Messages \X BOOLEAN \X Seeds) |-> Verdicts(k[1], k[2], k[3])]

\* the verdicts for the request served last
LastVerdict ==
    verdictTable[<<lastRequest.message, lastRequest.previousVersionId # NoValue,
                   lastRequest.seed>>]

\* C1: fail-closed. For every generate request whose markup was emitted, if
\* the security scan (performSecurityCheck over the raw message and the
\* markup) or the structural validator (validateJSX over the markup) reports
\* a violation, generate ends Rejected and the store keeps its size.
C1_FailClosed ==
    (/\ LastGenerate
     /\ "emission" \in SeqToSet(stages)
     /\ (~LastVerdict.security.safe \/ ~LastVerdict.structure.valid)) =>
        /\ response.status = 400
        /\ Len(versionOrder) = Len(before.versionOrder)

\* C2: atomicity on failure. Every generate request that ends with a failure
\* response, a rejection at a validation stage or the generic failure of an
\* unexpected error (while building the response included), leaves the order
\* list and the map as they were before the request.
C2_AtomicOnFailure ==
    (LastGenerate /\ response.status # 200) => StoreUnchanged

\* C3: bounded history. After n appends to the empty store its size is
\* min(n, 50) and it holds exactly the min(n, 50) versions appended last,
\* oldest first, in the order list and in the map alike.
C3_BoundedHistory ==
    LET n == nextId - 1
        size == Min(n, VersionLimit)
    IN  /\ Len(versionOrder) = size
        /\ versionOrder = [k \in 1..size |-> VersionId(n - size + k)]
        /\ DOMAIN versions = {VersionId(n - size + k) : k \in 1..size}
        /\ \A k \in 1..size :
              /\ versions[VersionId(n - size + k)].id = VersionId(n - size + k)
              /\ versions[VersionId(n - size + k)].timestamp = n - size + k

\* 55 appends: 50 versions are left and the first 5 are gone
C3_Witness ==
    /\ nextId - 1 = 55
    /\ Len(versionOrder) = 50
    /\ \A k \in 1..5 : VersionId(k) \notin DOMAIN versions
                       /\ VersionId(k) \notin SeqToSet(versionOrder)

\* C4: whitelist soundness of plans. Every node of a plan validatePlan
\* accepts, root or nested at any depth, has a kind that is a key of
\* COMPONENT_LIBRARY.
C4_PlanWhitelistSound ==
    (planResult # <<>> /\ planResult[1].status = 200 /\ planResult[1].valid) =>
        \A k \in 1..Len(AllNodes(planInput[1].components)) :
            AllNodes(planInput[1].components)[k].type \in DOMAIN COMPONENT_LIBRARY

\* C5: whitelist soundness of markup. Every element tag of a markup
\* validateJSX accepts is a key of componentManifest.allowedComponents,
\* whether or not the element carries an attribute.
C5_MarkupWhitelistSound ==
    (jsxResult # <<>> /\ jsxResult[1].valid) =>
        \A tag \in ElementTags(jsxInput[1]) :
            tag \in DOMAIN componentManifest.allowedComponents

\* C6: determinism. For a fixed message and a fixed store, every run of
\* generate gives the same plan (node ids included) and the same markup:
\* the version stored by the last run agrees with the run of the same request
\* from the same store under every other draw of uuidv4.
C6_Deterministic ==
    (LastGenerate /\ response.status = 200) =>
        \A seed \in Seeds :
            generateTable[<<lastRequest.message,
                            lastRequest.previousVersionId # NoValue, seed>>].passed =>
                /\ generateTable[<<lastRequest.message,
                                   lastRequest.previousVersionId # NoValue, seed>>].plan
                       = response.data.plan
                /\ generateTable[<<lastRequest.message,
                                   lastRequest.previousVersionId # NoValue, seed>>].generatedCode
                       = response.data.generatedCode

\* C7: injection is reported. For every message matching an injection
\* pattern, whatever its length, the classifier answers create with
\* confidence 0, the request reaches the security scan, generate ends
\* Rejected with the injection violations in the response, and nothing is
\* stored.
C7_InjectionReported ==
    (LastGenerate /\ Len(trim(lastRequest.message)) > 0
                  /\ Len(LastVerdict.injection) > 0) =>
        /\ LastVerdict.classified.intent = "create"
        /\ LastVerdict.classified.confidence[1] = 0
        /\ "securityCheck" \in SeqToSet(stages)
        /\ response.status = 400
        /\ "violations" \in DOMAIN response
        /\ \A k \in 1..Len(LastVerdict.injection) :
              \E j \in 1..Len(response.violations) :
                  response.violations[j] = LastVerdict.injection[k]
        /\ StoreUnchanged

\* the order list after one append to the store of before
AfterAppend(id) ==
    (IF Len(before.versionOrder) = VersionLimit
     THEN Tail(before.versionOrder) ELSE before.versionOrder) \o <<id>>

\* C8: rollback fidelity. rollback(v.id) for a stored v appends exactly one
\* version with a fresh id, v's plan and markup, intent rollback and v's
\* message behind the marker "[ROLLBACK] "; v stays as it was unless it is
\* the entry the capacity limit evicts.
C8_RollbackFidelity ==
    (lastRequest.op = "rollback" /\ lastRequest.id \in DOMAIN before.versions) =>
        LET v == before.versions[lastRequest.id]
            id == response.data.id
        IN  /\ response.status = 200
            /\ id \notin DOMAIN before.versions
            /\ id \notin SeqToSet(before.versionOrder)
            /\ versionOrder = AfterAppend(id)
            /\ DOMAIN versions = SeqToSet(versionOrder)
            /\ versions[id].plan = v.plan
            /\ versions[id].generatedCode = v.generatedCode
            /\ versions[id].metadata.intent = "rollback"
            /\ versions[id].userMessage = "[ROLLBACK] " \o v.userMessage
            /\ \A i \in DOMAIN versions \ {id} : versions[i] = before.versions[i]
            /\ lastRequest.id \notin DOMAIN versions =>
                  /\ Len(before.versionOrder) = VersionLimit
                  /\ Head(before.versionOrder) = lastRequest.id

\* a rollback of the oldest version of a full store: the original is evicted
C8_Witness ==
    /\ lastRequest.op = "rollback"
    /\ response.status = 200
    /\ lastRequest.id \in DOMAIN before.versions
    /\ lastRequest.id \notin DOMAIN versions
    /\ versions[response.data.id].userMessage = "[ROLLBACK] " \o FillerMessage

\* C9: unknown id. rollback(id) and getVersion(id) for an id that is not in
\* the store, never assigned or evicted, answer NotFound and leave the store
\* unchanged.
C9_UnknownId ==
    (lastRequest.op \in {"rollback", "getVersion"}
     /\ lastRequest.id \notin DOMAIN before.versions) =>
        /\ response.status = 404
        /\ StoreUnchanged

\* a rollback of the first version after its eviction
C9_Witness ==
    /\ lastRequest.op = "rollback"
    /\ lastRequest.id = VersionId(1)
    /\ nextId > VersionLimit + 1
    /\ VersionId(1) \notin DOMAIN before.versions
    /\ response.status = 404

\* the first n stages of the order, the optional diff left out
StagePrefix(n) == SelectSeq(SubSeq(PipelineOrder, 1, n), LAMBDA stage : stage # "diff")

\* C10: pipeline ordering. The stages of a generate run follow the fixed
\* order; the first validation that fails ends the run as Rejected with that
\* validation's violations and nothing runs after it, the append least of
\* all; a version is persisted only if plan validation, security check and
\* code-safety check passed.
C10_PipelineOrdering ==
    LastGenerate =>
        LET verdict == LastVerdict
            ran == SelectSeq(stages, LAMBDA stage : stage # "diff")
        IN  /\ \E n \in 0..Len(PipelineOrder) : ran = StagePrefix(n)
            /\ \A i, j \in 1..Len(stages) : (i < j /\ stages[j] = "diff") => stages[i] # "persist"
            /\ IF verdict.blank
               THEN stages = <<>> /\ response.status = 400 /\ StoreUnchanged
               ELSE IF ~verdict.intent.valid
               THEN /\ stages = StagePrefix(2)
                    /\ response.status = 400
                    /\ response.message = verdict.intent.error
                    /\ StoreUnchanged
               ELSE IF ~verdict.plan.valid
               THEN /\ stages = StagePrefix(4)
                    /\ response.status = 400
                    /\ response.errors = verdict.plan.errors
                    /\ StoreUnchanged
               ELSE IF ~verdict.security.safe
               THEN /\ stages = StagePrefix(6)
                    /\ response.status = 400
                    /\ response.violations = verdict.security.violations
                    /\ StoreUnchanged
               ELSE IF ~verdict.safety.valid
               THEN /\ stages = StagePrefix(7)
                    /\ response.status = 400
                    /\ response.errors = verdict.safety.errors
                    /\ StoreUnchanged
               ELSE /\ "persist" \in SeqToSet(stages)
                    /\ Appended
            /\ ~StoreUnchanged =>
                  verdict.plan.valid /\ verdict.security.safe /\ verdict.safety.valid

\* a run rejected by the code-safety check after the security check passed
C10_Witness ==
    /\ LastGenerate
    /\ stages = StagePrefix(7)
    /\ response.status = 400
    /\ response.error = "Code safety validation failed"
    /\ StoreUnchanged

\* C11: validation failures are values. For every plan value handed to
\* validatePlan (a node of an arbitrary kind, a node without a props map and
\* a value that is no object included) the call returns a result
\* {valid, errors} and does not throw.
C11_ValidatePlanReturns ==
    planResult # <<>> =>
        /\ ~validatePlan(planInput[1]).threw
        /\ planResult[1].status = 200
        /\ {"valid", "errors"} \subseteq DOMAIN planResult[1]

\* C12: prior-version requirement. A generate request classified as modify,
\* regenerate or rollback is rejected before planning starts, the store
\* unchanged, unless its previousVersionId names a version that is in the
\* store; an id that is supplied but names no stored version does not do.
C12_PriorVersionResolves ==
    (/\ LastGenerate
     /\ Len(trim(lastRequest.message)) > 0
     /\ LastVerdict.classified.intent \in {"modify", "regenerate", "rollback"}
     /\ lastRequest.previousVersionId \notin DOMAIN before.versions) =>
        /\ "planGeneration" \notin SeqToSet(stages)
        /\ response.status = 400
        /\ StoreUnchanged

\* C13: explanation failure is non-fatal. When generateExplanation or its
\* serializability check throws for a request that passed every validation,
\* the minimal default explanation takes its place, exactly one version
\* carrying it is appended and the response is a success.
C13_ExplanationFailureNonFatal ==
    (LastGenerate /\ lastRequest.fault = "explanation") =>
        /\ response.status = 200
        /\ response.success
        /\ response.data.id \notin DOMAIN before.versions
        /\ versionOrder = AfterAppend(response.data.id)
        /\ DOMAIN versions = SeqToSet(versionOrder)
        /\ \A i \in DOMAIN versions \ {response.data.id} : versions[i] = before.versions[i]
        /\ versions[response.data.id].explanation =
              [layoutReasoning |-> "Generated layout structure",
               componentSelectionReasoning |-> <<>>,
               tradeoffs |-> <<>>,
               constraints |-> <<>>]
        /\ response.data.explanation = versions[response.data.id].explanation
        /\ "persist" \in SeqToSet(stages)

\* a second version stored after its explanation failed
C13_Witness ==
    /\ LastGenerate
    /\ lastRequest.fault = "explanation"
    /\ response.status = 200
    /\ Len(versionOrder) = 2
    /\ versions[versionOrder[2]].explanation.layoutReasoning = "Generated layout structure"
    /\ versions[versionOrder[1]].explanation.layoutReasoning # "Generated layout structure"

\* the nodes of the plan generate made for the last request, parents before
\* their children
LastPlanNodes ==
    AllNodes(generateTable[<<lastRequest.message, lastRequest.previousVersionId # NoValue,
                             lastRequest.seed>>].plan.components)

\* node is an Input of the given type
IsInputOf(node, type) ==
    /\ node.type = "Input"
    /\ HasProp(node.props, "type")
    /\ PropValue(node.props, "type") = Str(type)

\* the plan of the last request holds an email Input, a password Input and a
\* submit Button in this order
LoginNodesInOrder ==
    \E i, j, k \in 1..Len(LastPlanNodes) :
        /\ i < j /\ j < k
        /\ IsInputOf(LastPlanNodes[i], "email")
        /\ IsInputOf(LastPlanNodes[j], "password")
        /\ LastPlanNodes[k].type = "Button"
        /\ HasProp(LastPlanNodes[k].props, "children")
        /\ PropValue(LastPlanNodes[k].props, "children") = Str("Submit")

\* C14: scenario A. For "Create a login form with email and password
\* fields" the plan holds an email Input, a password Input and a submit
\* Button in this order, validatePlan accepts the plan and validateJSX
\* accepts the markup emitted from it.
C14_ScenarioA ==
    (/\ LastGenerate
     /\ lastRequest.message = LoginMessage
     /\ "emission" \in SeqToSet(stages)) =>
        /\ LoginNodesInOrder
        /\ LastVerdict.plan.valid
        /\ LastVerdict.structure.valid

\* the root nodes of the plan under validation whose kind is no key of the
\* registry
UnknownRoots ==
    {k \in 1..Len(planInput[1].components) :
        planInput[1].components[k].type \notin DOMAIN COMPONENT_LIBRARY}

\* the violations a known root's own props call for
SiblingErrors(k) ==
    IF k \in UnknownRoots THEN <<>>
    ELSE validateComponentProps(planInput[1].components[k].type,
                                planInput[1].components[k].props)

\* C15: scenario C, generalised. For every plan with a root node whose kind
\* is not in the registry, validatePlan returns valid = false with exactly one
\* unknown-component violation for that node, nothing for that node's props
\* or descendants, and the violations of every sibling root's own props.
C15_UnknownRootReported ==
    (/\ planResult # <<>>
     /\ "components" \in DOMAIN planInput[1]
     /\ UnknownRoots # {}) =>
        /\ planResult[1].status = 200
        /\ ~planResult[1].valid
        /\ \A k \in UnknownRoots :
              Cardinality({e \in 1..Len(planResult[1].errors) :
                  planResult[1].errors[e].path =
                      "plan.components." \o planInput[1].components[k].id}) = 1
        /\ \A k \in 1..Len(planInput[1].components) :
              \A e \in 1..Len(SiblingErrors(k)) :
                  \E f \in 1..Len(planResult[1].errors) :
                      planResult[1].errors[f] = SiblingErrors(k)[e]
        /\ Len(planResult[1].errors) =
              Cardinality(UnknownRoots)
              + Len(FlattenSeq([k \in 1..Len(planInput[1].components) |-> SiblingErrors(k)]))
              + Len(planLayoutErrors(planInput[1]))

\* C16: scenario D. When the new code is the old code with one new element
\* appended, as in diff("<Card/>", "<Card/><Button/>"), added holds the line
\* of the new element, removed is empty and modified is empty: the unchanged
\* element is reported neither as removed nor as modified.
C16_AppendedElementDiff ==
    (callResult # <<>> /\ callInput[1].op = "calculateDiff") =>
        \A sep \in DiffSeparators, tag \in DiffTags :
            (/\ ~Includes(callInput[1].oldCode, tag)
             /\ callInput[1].newCode = callInput[1].oldCode \o sep \o "<" \o tag \o "/>") =>
                /\ \E k \in 1..Len(callResult[1].added) :
                      Includes(callResult[1].added[k], "<" \o tag \o "/>")
                /\ callResult[1].removed = <<>>
                /\ callResult[1].modified = <<>>

\* the greatest limit asked for
MaxLimit == 60

C18_SerializedAppends ==
    /\ Len(versionOrder) <= VersionLimit
    /\ Cardinality(DOMAIN versions) <= VersionLimit
    /\ \A i, j \in 1..Len(versionOrder) : i # j => versionOrder[i] # versionOrder[j]
    /\ DOMAIN versions = SeqToSet(versionOrder)
    /\ \A i, j \in 1..Len(versionOrder) :
          i < j => versions[versionOrder[i]].timestamp < versions[versionOrder[j]].timestamp
    /\ (lastRequest.op \in {"generate", "rollback"} /\ ~StoreUnchanged) =>
          /\ versionOrder[Len(versionOrder)] \notin SeqToSet(before.versionOrder)
          /\ versionOrder = AfterAppend(versionOrder[Len(versionOrder)])
          /\ \A id \in DOMAIN before.versions \ DOMAIN versions :
                \A other \in DOMAIN before.versions :
                    before.versions[id].timestamp <= before.versions[other].timestamp

\* a generate served after a rollback on a full store: the oldest entry is
\* evicted
C18_Witness ==
    /\ lastRequest.op = "generate"
    /\ rollbacks = 1
    /\ Len(before.versionOrder) = VersionLimit
    /\ Head(before.versionOrder) \notin DOMAIN versions
    /\ Len(versionOrder) = VersionLimit

\* an append past the capacity took `id`, the oldest entry, off the store
EvictedByAppend(id) ==
    /\ Len(versionOrder) = VersionLimit
    /\ id = Head(versionOrder)
    /\ Len(versionOrder') = VersionLimit
    /\ SubSeq(versionOrder', 1, VersionLimit - 1) = Tail(versionOrder)
    /\ versionOrder'[VersionLimit] \notin DOMAIN versions

\* clear() emptied the store
RemovedByClear ==
    /\ callInput' # <<>>
    /\ callInput'[1].op = "clear"
    /\ versions' = <<>>
    /\ versionOrder' = <<>>

\* C19: version immutability. No operation changes a field of a stored
\* version: an id that stays in the store keeps its content, getVersion(id)
\* returns the content the version was created with, and an id leaves the
\* store only as the oldest entry evicted by an append past the capacity or
\* by clear().
C19_VersionImmutable ==
    [][/\ \A id \in DOMAIN versions :
             IF id \in DOMAIN versions'
             THEN versions'[id] = versions[id]
             ELSE EvictedByAppend(id) \/ RemovedByClear
       /\ (/\ callInput' # <<>>
           /\ callInput'[1].op = "getVersion"
           /\ callInput'[1].id \in DOMAIN versions)
             => callResult' = <<versions[callInput'[1].id]>>]_vars

\* an analyzeIntent call has returned for a message without injection signature
IntentAnswered ==
    /\ callInput # <<>>
    /\ callInput[1].op = "analyzeIntent"
    /\ callResult # <<>>
    /\ detectPromptInjection(toLowerCase(callInput[1].request.message)) = <<>>

\* how many keywords of the intent occur in the lower-cased message
KeywordCount(message, intent) ==
    Cardinality({k \in 1..Len(INTENT_KEYWORDS[intent]) :
                    Includes(toLowerCase(message), INTENT_KEYWORDS[intent][k])})

\* the earliest-declared intent among those with the greatest count
GreatestCountIntent(message) ==
    IntentOrder[CHOOSE k \in 1..Len(IntentOrder) :
        /\ \A j \in 1..Len(IntentOrder) :
              KeywordCount(message, IntentOrder[j]) <= KeywordCount(message, IntentOrder[k])
        /\ \A j \in 1..(k - 1) :
              KeywordCount(message, IntentOrder[j]) < KeywordCount(message, IntentOrder[k])]

\* C20 as stated: intent selection. For a message matching no injection
\* signature, analyzeIntent returns the intent with the greatest keyword
\* count, the earliest-declared one on a tie, and create when every count
\* is 0.
C20_IntentSelection ==
    IntentAnswered =>
        /\ callResult[1].intent = GreatestCountIntent(callInput[1].request.message)
        /\ (\A j \in 1..Len(IntentOrder) :
               KeywordCount(callInput[1].request.message, IntentOrder[j]) = 0)
             => callResult[1].intent = "create"

\* the request names a prior version and its message holds neither "rollback"
\* nor "regenerate"
AssumesModify(request) ==
    /\ request.previousVersionId # NoValue
    /\ ~Includes(toLowerCase(request.message), "rollback")
    /\ ~Includes(toLowerCase(request.message), "regenerate")

\* C20 amended: intent selection. For a message matching no injection
\* signature, analyzeIntent returns the intent with the greatest keyword
\* count, the earliest-declared one on a tie and create when every count is
\* 0, except that a selection of create becomes modify when the request
\* names a prior version and the message holds neither "rollback" nor
\* "regenerate".
C20_IntentSelectionAmended ==
    IntentAnswered =>
        With(GreatestCountIntent(callInput[1].request.message), LAMBDA selected :
            callResult[1].intent =
                IF selected = "create" /\ AssumesModify(callInput[1].request)
                THEN "modify" ELSE selected)

\* a request naming a prior version whose greatest count is create's, without
\* "rollback" or "regenerate" in its message, was answered with modify
C20_Witness ==
    /\ IntentAnswered
    /\ AssumesModify(callInput[1].request)
    /\ KeywordCount(callInput[1].request.message, "create") > 0
    /\ GreatestCountIntent(callInput[1].request.message) = "create"
    /\ callResult[1].intent = "modify"

\* C21: modify override. When the request carries a previousVersionId, the
\* keyword-count winner is create and the message holds no keyword of rollback
\* and no keyword of regenerate, analyzeIntent returns modify; in every other
\* case it returns the keyword-count winner.
C21_ModifyOverride ==
    (callInput # <<>> /\ callInput[1].op = "analyzeIntent" /\ callResult # <<>>) =>
        With(callInput[1].request, LAMBDA request :
        With(GreatestCountIntent(request.message), LAMBDA winner :
            callResult[1].intent =
                IF /\ request.previousVersionId # NoValue
                   /\ winner = "create"
                   /\ KeywordCount(request.message, "rollback") = 0
                   /\ KeywordCount(request.message, "regenerate") = 0
                THEN "modify" ELSE winner))

\* a generatePlan call has returned
Planned ==
    /\ callInput # <<>>
    /\ callInput[1].op = "generatePlan"
    /\ callResult # <<>>

\* C22: layout hints. plan.layout.direction is horizontal iff the lower-cased
\* message contains "horizontal", else vertical; plan.layout.spacing is sm if
\* the message contains "compact", otherwise lg if it contains "spacious",
\* otherwise md, so a message with both words gets sm.
C22_LayoutHints ==
    Planned =>
        With(toLowerCase(callInput[1].userMessage), LAMBDA text :
            /\ callResult[1].layout.direction =
                  IF Includes(text, "horizontal") THEN "horizontal" ELSE "vertical"
            /\ callResult[1].layout.spacing =
                  IF Includes(text, "compact") THEN "sm"
                  ELSE IF Includes(text, "spacious") THEN "lg"
                  ELSE "md")

\* the nodes the assembly produced: the roots of the plan and their children
AssembledNodes(plan) ==
    FlattenSeq([k \in 1..Len(plan.components) |->
                   <<plan.components[k]>> \o plan.components[k].children])

\* the node is a vocabulary component with its fixed default props (step c)
FromVocabulary(node) ==
    /\ \E k \in 1..Len(DefaultTypes) : DefaultTypes[k] = toLowerCase(node.type)
    /\ node.props = DefaultsEntry(toLowerCase(node.type), "").props

\* C23: no double emission. A vocabulary component named in the text is
\* instantiated only if no node of its kind was emitted before it, so a node
\* made from the vocabulary is the only node of its kind in the plan, and a
\* message mentioning "header" yields exactly one Header node.
C23_NoDoubleEmission ==
    Planned =>
        With(AssembledNodes(callResult[1]), LAMBDA nodes :
            /\ \A i \in 1..Len(nodes), j \in 1..Len(nodes) :
                  (i # j /\ nodes[i].type = nodes[j].type) => ~FromVocabulary(nodes[i])
            /\ Includes(toLowerCase(callInput[1].userMessage), "header")
                  => Cardinality({i \in 1..Len(nodes) : nodes[i].type = "Header"}) = 1)

\* what steps (a) to (c) assembled for the message of the call
Assembled ==
    assembleComponents(callInput[1].userMessage,
                       extractEntities(callInput[1].userMessage).componentsRequested,
                       callInput[1].seed).components

IsCard(node, title) ==
    /\ node.type = "Card"
    /\ node.props = << <<"title", Str(title)>> >>

\* C24: wrapping. If the assembly produced more than one node and the text
\* does not mention "card", the plan's list is the first node followed by a
\* synthetic Card whose children are the other assembled nodes in their order;
\* if the assembly produced no node the plan is one default Card; otherwise
\* the assembled list is returned unchanged. The list is never empty.
C24_Wrapping ==
    Planned =>
        With(Assembled, LAMBDA nodes :
        With(callResult[1].components, LAMBDA components :
            /\ Len(components) > 0
            /\ IF Len(nodes) > 1 /\ ~Includes(toLowerCase(callInput[1].userMessage), "card")
               THEN /\ Len(components) = 2
                    /\ components[1] = nodes[1]
                    /\ IsCard(components[2], "Content")
                    /\ components[2].children = Tail(nodes)
               ELSE IF Len(nodes) = 0
               THEN /\ Len(components) = 1
                    /\ IsCard(components[1], "Content")
                    /\ components[1].children = <<>>
               ELSE components = nodes))

\* three assembled nodes were wrapped: the plan is the first node and a Card
\* holding the other two
C24_Witness ==
    /\ Planned
    /\ Len(Assembled) = 3
    /\ Len(callResult[1].components) = 2
    /\ Len(callResult[1].components[2].children) = 2

\* the nesting constraints of both parties hold between a node and its child
NestingAllowed(parent, child) ==
    /\ (/\ parent.type \in DOMAIN COMPONENT_LIBRARY
        /\ COMPONENT_LIBRARY[parent.type].allowedChildren # <<>>)
          => child.type \in SeqToSet(COMPONENT_LIBRARY[parent.type].allowedChildren)
    /\ (/\ child.type \in DOMAIN COMPONENT_LIBRARY
        /\ COMPONENT_LIBRARY[child.type].allowedParents # <<>>)
          => parent.type \in SeqToSet(COMPONENT_LIBRARY[child.type].allowedParents)

NestingRespected(plan) ==
    \A k \in 1..Len(AllNodes(plan.components)) :
        \A c \in 1..Len(AllNodes(plan.components)[k].children) :
            NestingAllowed(AllNodes(plan.components)[k],
                           AllNodes(plan.components)[k].children[c])

\* C25: nesting constraints are enforced. Every plan validatePlan accepts
\* satisfies, for each parent node and each of its children, the parent
\* schema's allowedChildren and the child schema's allowedParents.
C25_NestingEnforced ==
    (planResult # <<>> /\ planResult[1].status = 200 /\ planResult[1].valid) =>
        NestingRespected(planInput[1])

\* a calculateDiff call has returned
Diffed ==
    /\ callInput # <<>>
    /\ callInput[1].op = "calculateDiff"
    /\ callResult # <<>>

\* the lines of `code`, in order and one per occurrence, that are no line of `other`
LinesAbsentFrom(code, other) ==
    SelectSeq(SplitLines(code), LAMBDA line : line \notin SeqToSet(SplitLines(other)))

FirstEntries(q) == SubSeq(q, 1, Min(DiffLimit, Len(q)))

Trimmed(q) == [k \in 1..Len(q) |-> trim(q[k])]

\* the summary reports `added` and `removed` as the numbers of lines
SummaryCounts(added, removed) ==
    callResult[1].summary =
        "Added " \o ToString(added) \o " lines, removed " \o ToString(removed)
        \o " lines, modified " \o ToString(Len(callResult[1].modified)) \o " components"

\* C26 as stated: diff line sets. added is the lines present in new and
\* absent from old, removed is the lines present in old and absent from new;
\* each returned list holds the first 10 entries at most, and the summary
\* counts the full numbers of added and removed lines.
C26_DiffLineSets ==
    Diffed =>
        With(LinesAbsentFrom(callInput[1].newCode, callInput[1].oldCode), LAMBDA added :
        With(LinesAbsentFrom(callInput[1].oldCode, callInput[1].newCode), LAMBDA removed :
            /\ callResult[1].added = FirstEntries(added)
            /\ callResult[1].removed = FirstEntries(removed)
            /\ SummaryCounts(Len(added), Len(removed))))

\* C26 amended: diff line sets. added is, in order and one per occurrence,
\* the lines of new that are no line of old, each with its leading and
\* trailing whitespace removed; removed is the same for the lines of old that
\* are no line of new; each returned list holds the first 10 entries at most,
\* and the summary counts the full numbers of added and removed lines.
C26_DiffLineSetsTrimmed ==
    Diffed =>
        With(LinesAbsentFrom(callInput[1].newCode, callInput[1].oldCode), LAMBDA added :
        With(LinesAbsentFrom(callInput[1].oldCode, callInput[1].newCode), LAMBDA removed :
            /\ callResult[1].added = FirstEntries(Trimmed(added))
            /\ callResult[1].removed = FirstEntries(Trimmed(removed))
            /\ SummaryCounts(Len(added), Len(removed))))

\* twelve lines were added, ten of them are listed and the summary counts twelve
C26_Witness ==
    /\ Diffed
    /\ Len(LinesAbsentFrom(callInput[1].newCode, callInput[1].oldCode)) = 12
    /\ Len(callResult[1].added) = DiffLimit
    /\ Includes(callResult[1].summary, "Added 12 lines")

\* the names that follow a tag-opening "<" in the code: at each "<" the
\* longest run of word characters after it, if there is one
OpenedTags(code) ==
    {SubSeq(code, i + 1, i + RunLength(code, i + 1, WordChars, TRUE)) :
        i \in {j \in 1..Len(code) :
                  CharAt(code, j) = "<" /\ RunLength(code, j + 1, WordChars, TRUE) >= 1}}

\* C27: diff modified kinds. The modified list of diff(old, new) holds
\* exactly the tag names that follow a tag-opening "<" in both the old and the
\* new code, each of them once, however often and wherever the tag occurs.
C27_ModifiedKinds ==
    Diffed =>
        /\ SeqToSet(callResult[1].modified)
              = OpenedTags(callInput[1].oldCode) \cap OpenedTags(callInput[1].newCode)
        /\ Len(callResult[1].modified) = Cardinality(SeqToSet(callResult[1].modified))

\* a tag that opens once in the old code and twice in the new code is listed once
C27_Witness ==
    /\ Diffed
    /\ Len(SelectSeq(TagNames(callInput[1].oldCode), LAMBDA name : name = "Button")) = 1
    /\ Len(SelectSeq(TagNames(callInput[1].newCode), LAMBDA name : name = "Button")) = 2
    /\ callResult[1].modified = <<"Button">>

\* an applyAstPatch call has returned
Patched ==
    /\ callInput # <<>>
    /\ callInput[1].op = "applyAstPatch"
    /\ callResult # <<>>

\* the module text parses and holds a JSX element
HasElement(code) == parse(code).ok /\ parse(code).elements # <<>>

C29_StoreConsistent ==
    /\ \A i \in 1..Len(versionOrder), j \in 1..Len(versionOrder) :
          versionOrder[i] = versionOrder[j] => i = j
    /\ SeqToSet(versionOrder) = DOMAIN versions
    /\ getVersionCount = Len(versionOrder)
    /\ \A n \in 0..nextId :
          versionExists(VersionId(n)) <=> VersionId(n) \in SeqToSet(versionOrder)

\* deleteVersion took the newest entry off a store that had evicted before
C29_Witness ==
    /\ callInput # <<>>
    /\ callInput[1].op = "deleteVersion"
    /\ callResult = <<TRUE>>
    /\ nextId > VersionLimit + 1
    /\ Len(versionOrder) = VersionLimit - 1
    /\ callInput[1].id \notin DOMAIN versions

\* C30: generated plans always validate. For every message the plan that
\* generatePlan returns is accepted by validatePlan: it returns valid = true,
\* so no generate request is rejected at the plan-validation stage.
C30_GeneratedPlansValidate ==
    Planned =>
        /\ ~validatePlan(callResult[1]).threw
        /\ validatePlan(callResult[1]).valid

\* a plan of three unwrapped roots was generated and is accepted
C30_Witness ==
    /\ Planned
    /\ Len(callResult[1].components) >= 3
    /\ validatePlan(callResult[1]).valid

====
